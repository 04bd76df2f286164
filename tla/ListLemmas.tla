------------------------------ MODULE ListLemmas ------------------------------
(***************************************************************************)
(* What thinning out a list returns: the elements that stay, in the order  *)
(* they had.  And what a function is that is defined by recursion on a     *)
(* number: the one its recursive definition describes.                     *)
(***************************************************************************)
EXTENDS Lists, SequencesExt, FiniteSetTheorems, WellFoundedInduction, TLAPS

\* A set of numbers that is not empty has a least one: induction, as a statement about
\* the least counterexample.
LEMMA LeastOf ==
    ASSUME NEW B \in SUBSET Nat, B # {}
    PROVE  \E b \in B : \A c \in B : b <= c
<1> DEFINE R == {ss \in Nat \X Nat : ss[1] < ss[2]}
<1>1. IsWellFoundedOn(R, Nat) BY NatLessThanWellFounded DEF OpToRel
<1>2. \E b \in B : \A c \in B : <<c, b>> \notin R
  <2> HIDE DEF R
  <2> QED BY <1>1, WFMin, Zenon
<1>3. PICK b \in B : \A c \in B : <<c, b>> \notin R BY <1>2
<1>4. \A c \in B : b <= c
  <2> TAKE c \in B
  <2>1. <<c, b>> \in Nat \X Nat /\ ~(c < b) BY <1>3
  <2> QED BY <2>1, b \in Nat, c \in Nat
<1> QED BY <1>4

\* f holds a, and after each of its first k values the one h gives for it.
Iterates(A, a, h, k, f) ==
    /\ f \in [0 .. k -> A] /\ f[0] = a
    /\ \A n \in 1 .. k : f[n] = h[<<n, f[n - 1]>>]

LEMMA IteratesOnce ==
    ASSUME NEW A, NEW a \in A, NEW h \in [Nat \X A -> A], NEW k \in Nat
    PROVE  \E f : Iterates(A, a, h, k, f)
<1> DEFINE Bad == {n \in Nat : ~ \E f : Iterates(A, a, h, n, f)}
<1>1. 0 \notin Bad
  <2>1. Iterates(A, a, h, 0, [n \in 0 .. 0 |-> a]) BY DEF Iterates
  <2> QED BY <2>1
<1>2. ASSUME NEW n \in Nat \ {0}, n - 1 \notin Bad PROVE n \notin Bad
  <2>1. n - 1 \in Nat /\ n - 1 \in 0 .. (n - 1) BY <1>2
  <2>2. PICK f : Iterates(A, a, h, n - 1, f) BY <1>2, <2>1
  <2> DEFINE g == [i \in 0 .. n |-> IF i = n THEN h[<<n, f[n - 1]>>] ELSE f[i]]
  <2>3. f[n - 1] \in A BY <2>1, <2>2 DEF Iterates
  <2>4. h[<<n, f[n - 1]>>] \in A BY <2>3
  <2>5. \A i \in 0 .. n : i = n \/ (i \in 0 .. (n - 1) /\ i # n) OBVIOUS
  <2>6. g \in [0 .. n -> A] BY <2>2, <2>4, <2>5 DEF Iterates
  <2>7. g[0] = a /\ g[n] = h[<<n, g[n - 1]>>]
    <3>1. 0 \in 0 .. n /\ 0 # n /\ n \in 0 .. n /\ n - 1 \in 0 .. n /\ n - 1 # n BY <1>2
    <3> QED BY <2>2, <3>1 DEF Iterates
  <2>8. ASSUME NEW i \in 1 .. n PROVE g[i] = h[<<i, g[i - 1]>>]
    <3>1. CASE i = n BY <2>7, <3>1
    <3>2. CASE i # n
      <4>1. i \in 0 .. n /\ i - 1 \in 0 .. n /\ i - 1 # n /\ i \in 1 .. (n - 1) BY <3>2
      <4>2. g[i] = f[i] /\ g[i - 1] = f[i - 1] BY <3>2, <4>1
      <4> QED BY <2>2, <4>1, <4>2 DEF Iterates
    <3> QED BY <3>1, <3>2
  <2>9. Iterates(A, a, h, n, g) BY <2>6, <2>7, <2>8 DEF Iterates
  <2> QED BY <2>9
<1>3. Bad = {}
  <2> SUFFICES ASSUME Bad # {} PROVE FALSE OBVIOUS
  <2>1. PICK b \in Bad : \A c \in Bad : b <= c BY LeastOf
  <2>2. b \in Nat \ {0} BY <1>1
  <2>3. b - 1 \in Nat /\ ~(b <= b - 1) BY <2>2
  <2> QED BY <1>2, <2>1, <2>2, <2>3
<1> QED BY <1>3

LEMMA IteratesAlike ==
    ASSUME NEW A, NEW a \in A, NEW h, NEW k \in Nat, NEW l \in Nat, k <= l,
           NEW f, Iterates(A, a, h, k, f), NEW g, Iterates(A, a, h, l, g)
    PROVE  \A n \in 0 .. k : f[n] = g[n]
<1> DEFINE Bad == {n \in 0 .. k : f[n] # g[n]}
<1> SUFFICES ASSUME Bad # {} PROVE FALSE OBVIOUS
<1>1. PICK b \in Bad : \A c \in Bad : b <= c
  <2>1. Bad \in SUBSET Nat OBVIOUS
  <2> QED BY <2>1, LeastOf
<1>2. b # 0 BY <1>1 DEF Iterates
<1>3. b \in 1 .. k /\ b \in 1 .. l /\ b - 1 \in 0 .. k /\ ~(b <= b - 1) BY <1>1, <1>2
<1>4. f[b - 1] = g[b - 1] BY <1>1, <1>3
<1> QED BY <1>1, <1>3, <1>4 DEF Iterates

\* A function may be defined on the numbers by what it is at 0 and by what it is after
\* each of its values.
IsRecursive(A, a, h, f) ==
    f \in [Nat -> A] /\ f[0] = a /\ \A n \in Nat \ {0} : f[n] = h[<<n, f[n - 1]>>]

LEMMA Recursion ==
    ASSUME NEW A, NEW a \in A, NEW h \in [Nat \X A -> A]
    PROVE  \E f : IsRecursive(A, a, h, f)
<1> DEFINE Of(k) == CHOOSE f : Iterates(A, a, h, k, f)
           f == [n \in Nat |-> Of(n)[n]]
<1>1. \A k \in Nat : Iterates(A, a, h, k, Of(k)) BY IteratesOnce
<1> HIDE DEF Of
<1>2. \A k \in Nat : Of(k)[k] \in A
  <2> TAKE k \in Nat
  <2>1. Iterates(A, a, h, k, Of(k)) BY <1>1
  <2> QED BY <2>1 DEF Iterates
<1>3. f \in [Nat -> A] BY <1>2
<1>4. f[0] = a
  <2>1. Iterates(A, a, h, 0, Of(0)) BY <1>1
  <2> QED BY <2>1 DEF Iterates
<1>5. ASSUME NEW n \in Nat \ {0} PROVE f[n] = h[<<n, f[n - 1]>>]
  <2>1. n - 1 \in Nat /\ n - 1 <= n /\ n - 1 \in 0 .. (n - 1) /\ n \in 1 .. n BY <1>5
  <2>2. Iterates(A, a, h, n, Of(n)) /\ Iterates(A, a, h, n - 1, Of(n - 1)) BY <1>1, <2>1
  <2>3. \A i \in 0 .. (n - 1) : Of(n - 1)[i] = Of(n)[i] BY <2>1, <2>2, IteratesAlike
  <2>4. Of(n - 1)[n - 1] = Of(n)[n - 1] BY <2>1, <2>3
  <2>5. Of(n)[n] = h[<<n, Of(n)[n - 1]>>] BY <2>1, <2>2 DEF Iterates
  <2> QED BY <2>1, <2>4, <2>5
<1> HIDE DEF f
<1> QED BY <1>3, <1>4, <1>5 DEF IsRecursive

\* f holds, for each n up to m, what is kept of the first n elements of s.
Keeps(s, S, m, f) ==
    f = [n \in 0 .. m |-> IF n = 0 THEN <<>>
            ELSE IF s[n] \in S THEN f[n - 1] ELSE Append(f[n - 1], s[n])]

\* The recursion of Without is well defined.
LEMMA KeptExists ==
    ASSUME NEW s, NEW S, NEW m \in Nat
    PROVE  \E f : Keeps(s, S, m, f)
<1> DEFINE Body(f, n) == IF n = 0 THEN <<>>
                         ELSE IF s[n] \in S THEN f[n - 1] ELSE Append(f[n - 1], s[n])
           Ok(k) == \E f : f = [n \in 0 .. k |-> Body(f, n)]
           Bad == {k \in Nat : ~Ok(k)}
<1>1. Ok(0)
  <2> DEFINE f == [n \in 0 .. 0 |-> <<>>]
  <2>1. \A n \in 0 .. 0 : Body(f, n) = <<>> OBVIOUS
  <2> QED BY <2>1
<1>2. ASSUME NEW k \in Nat \ {0}, Ok(k - 1) PROVE Ok(k)
  <2>1. PICK f : f = [n \in 0 .. (k - 1) |-> Body(f, n)] BY <1>2
  <2> DEFINE g == [n \in 0 .. k |-> IF n = k THEN Body(f, k) ELSE f[n]]
  <2>2. \A n \in 0 .. k : g[n] = Body(g, n)
    <3> TAKE n \in 0 .. k
    <3>1. CASE n = k
      <4>1. k # 0 /\ k - 1 \in 0 .. k /\ k - 1 # k /\ g[k - 1] = f[k - 1] OBVIOUS
      <4>2. g[k] = Body(f, k) OBVIOUS
      <4> QED BY <3>1, <4>1, <4>2
    <3>2. CASE n = 0
      <4>1. 0 \in 0 .. k - 1 /\ n # k BY <3>2
      <4> QED BY <2>1, <3>2, <4>1
    <3>3. CASE n \in 1 .. (k - 1)
      <4>1. n # k /\ n # 0 /\ n - 1 \in 0 .. k /\ n - 1 # k /\ n \in 0 .. (k - 1) BY <3>3
      <4>2. g[n] = f[n] /\ g[n - 1] = f[n - 1] BY <4>1
      <4>3. f[n] = Body(f, n) BY <2>1, <4>1
      <4> QED BY <4>1, <4>2, <4>3
    <3> QED BY <3>1, <3>2, <3>3
  <2>3. g = [n \in 0 .. k |-> Body(g, n)] BY <2>2
  <2> QED BY <2>3
<1>3. Bad = {}
  <2> SUFFICES ASSUME Bad # {} PROVE FALSE OBVIOUS
  <2>1. PICK b \in Bad : \A c \in Bad : b <= c BY LeastOf
  <2>2. b # 0 BY <1>1
  <2>3. b - 1 \in Nat /\ ~(b <= b - 1) BY <2>2
  <2>4. Ok(b - 1) BY <2>1, <2>3
  <2> QED BY <1>2, <2>2, <2>4
<1>4. Ok(m) BY <1>3
<1> QED BY <1>4 DEF Keeps

\* t is the first m elements of s without those of S: e says where each of them was.
Thins(s, m, S, t) ==
    \E e \in [1 .. Len(t) -> 1 .. m] :
        /\ \A i, j \in 1 .. Len(t) : i < j => e[i] < e[j]
        /\ \A i \in 1 .. Len(t) : t[i] = s[e[i]] /\ t[i] \notin S
        /\ \A k \in 1 .. m : s[k] \notin S => \E i \in 1 .. Len(t) : e[i] = k

\* One more element of s: it is left out, or it comes last.
LEMMA ThinsOneMore ==
    ASSUME NEW T, NEW s \in Seq(T), NEW S, NEW m \in 1 .. Len(s), NEW t \in Seq(T),
           Thins(s, m - 1, S, t)
    PROVE  LET u == IF s[m] \in S THEN t ELSE Append(t, s[m])
           IN  u \in Seq(T) /\ Thins(s, m, S, u)
<1>1. PICK e \in [1 .. Len(t) -> 1 .. (m - 1)] :
        /\ \A i, j \in 1 .. Len(t) : i < j => e[i] < e[j]
        /\ \A i \in 1 .. Len(t) : t[i] = s[e[i]] /\ t[i] \notin S
        /\ \A k \in 1 .. (m - 1) : s[k] \notin S => \E i \in 1 .. Len(t) : e[i] = k
  BY DEF Thins
<1>2. s[m] \in T /\ Len(t) \in Nat OBVIOUS
<1>3. CASE s[m] \in S
  <2>1. e \in [1 .. Len(t) -> 1 .. m] BY <1>1
  <2>2. \A k \in 1 .. m : s[k] \notin S => \E i \in 1 .. Len(t) : e[i] = k
    <3> TAKE k \in 1 .. m
    <3>1. CASE k = m BY <1>3, <3>1
    <3>2. CASE k \in 1 .. (m - 1) BY <1>1, <3>2
    <3> QED BY <3>1, <3>2
  <2>3. Thins(s, m, S, t) BY <1>1, <2>1, <2>2 DEF Thins
  <2> QED BY <1>3, <2>3
<1>4. CASE s[m] \notin S
  <2> DEFINE u == Append(t, s[m])
             d == [i \in 1 .. Len(u) |-> IF i = Len(u) THEN m ELSE e[i]]
  <2>1. u \in Seq(T) /\ Len(u) = Len(t) + 1 /\ u[Len(u)] = s[m]
        /\ \A i \in 1 .. Len(t) : u[i] = t[i]
    BY <1>2
  <2>2. \A i \in 1 .. Len(t) : i \in 1 .. Len(u) /\ d[i] = e[i] /\ d[i] \in 1 .. (m - 1)
    <3> TAKE i \in 1 .. Len(t)
    <3>1. i \in 1 .. Len(u) /\ i # Len(u) BY <1>2, <2>1
    <3>2. e[i] \in 1 .. (m - 1) BY <1>1
    <3> QED BY <3>1, <3>2
  <2>3. Len(u) \in 1 .. Len(u) /\ d[Len(u)] = m BY <1>2, <2>1
  <2>4. \A i \in 1 .. Len(u) : i = Len(u) \/ i \in 1 .. Len(t) BY <1>2, <2>1
  <2>5. d \in [1 .. Len(u) -> 1 .. m]
    <3>1. \A i \in 1 .. Len(u) : d[i] \in 1 .. m BY <2>2, <2>3, <2>4
    <3> QED BY <3>1
  <2> HIDE DEF u, d
  <2>6. \A i, j \in 1 .. Len(u) : i < j => d[i] < d[j]
    <3> TAKE i, j \in 1 .. Len(u)
    <3> HAVE i < j
    <3>1. i \in 1 .. Len(t) BY <2>1, <1>2
    <3>2. CASE j = Len(u) BY <2>2, <2>3, <3>1, <3>2
    <3>3. CASE j \in 1 .. Len(t) BY <1>1, <2>2, <3>1, <3>3
    <3> QED BY <2>4, <3>2, <3>3
  <2>7. \A i \in 1 .. Len(u) : u[i] = s[d[i]] /\ u[i] \notin S
    <3> TAKE i \in 1 .. Len(u)
    <3>1. CASE i = Len(u) BY <1>4, <2>1, <2>3, <3>1
    <3>2. CASE i \in 1 .. Len(t) BY <1>1, <2>1, <2>2, <3>2
    <3> QED BY <2>4, <3>1, <3>2
  <2>8. \A k \in 1 .. m : s[k] \notin S => \E i \in 1 .. Len(u) : d[i] = k
    <3> TAKE k \in 1 .. m
    <3>1. CASE k = m BY <2>3, <3>1
    <3>2. CASE k \in 1 .. (m - 1) BY <1>1, <2>2, <3>2
    <3> QED BY <3>1, <3>2
  <2>9. Thins(s, m, S, u) BY <2>5, <2>6, <2>7, <2>8 DEF Thins
  <2> QED BY <1>4, <2>1, <2>9 DEF u
<1> QED BY <1>3, <1>4

\* Without leaves the elements outside S, in the order they had.
LEMMA WithoutThins ==
    ASSUME NEW T, NEW s \in Seq(T), NEW S
    PROVE  Without(s, S) \in Seq(T) /\ Thins(s, Len(s), S, Without(s, S))
<1> DEFINE kept == CHOOSE f : f = [n \in 0 .. Len(s) |-> IF n = 0 THEN <<>>
                          ELSE IF s[n] \in S THEN f[n - 1] ELSE Append(f[n - 1], s[n])]
           Ok(n) == kept[n] \in Seq(T) /\ Thins(s, n, S, kept[n])
           Bad == {n \in 0 .. Len(s) : ~Ok(n)}
<1>1. Without(s, S) = kept[Len(s)] BY DEF Without
<1>2. kept = [n \in 0 .. Len(s) |-> IF n = 0 THEN <<>>
                 ELSE IF s[n] \in S THEN kept[n - 1] ELSE Append(kept[n - 1], s[n])]
  <2>1. Len(s) \in Nat OBVIOUS
  <2>2. \E f : Keeps(s, S, Len(s), f) BY <2>1, KeptExists
  <2>3. kept = CHOOSE f : Keeps(s, S, Len(s), f) BY DEF Keeps
  <2> HIDE DEF kept
  <2>4. Keeps(s, S, Len(s), kept) BY <2>2, <2>3, Zenon
  <2> QED BY <2>4 DEF Keeps
<1> HIDE DEF kept
<1>3. Ok(0)
  <2>1. kept[0] = <<>> BY <1>2
  <2>2. Thins(s, 0, S, <<>>)
    <3> DEFINE e == [i \in 1 .. 0 |-> 0]
    <3>1. Len(<<>>) = 0 /\ 1 .. 0 = {} OBVIOUS
    <3>2. e \in [1 .. Len(<<>>) -> 1 .. 0] BY <3>1
    <3> QED BY <3>1, <3>2 DEF Thins
  <2> QED BY <2>1, <2>2
<1>4. ASSUME NEW n \in 1 .. Len(s), Ok(n - 1) PROVE Ok(n)
  <2>1. kept[n] = IF s[n] \in S THEN kept[n - 1] ELSE Append(kept[n - 1], s[n])
    <3>1. n \in 0 .. Len(s) /\ n # 0 OBVIOUS
    <3>2. kept[n] = IF n = 0 THEN <<>>
                    ELSE IF s[n] \in S THEN kept[n - 1] ELSE Append(kept[n - 1], s[n])
      BY <1>2, <3>1
    <3> QED BY <3>1, <3>2
  <2> QED BY <1>4, <2>1, ThinsOneMore
<1>5. Bad = {}
  <2> SUFFICES ASSUME Bad # {} PROVE FALSE OBVIOUS
  <2>1. Bad \in SUBSET Nat OBVIOUS
  <2>2. PICK b \in Bad : \A c \in Bad : b <= c BY <2>1, LeastOf
  <2>3. b # 0 /\ b \in 0 .. Len(s) BY <1>3
  <2>4. b \in 1 .. Len(s) /\ b - 1 \in 0 .. Len(s) /\ ~(b <= b - 1) BY <2>3
  <2>5. Ok(b - 1) BY <2>2, <2>4
  <2> QED BY <1>4, <2>4, <2>5
<1>6. Ok(Len(s))
  <2>1. Len(s) \in 0 .. Len(s) OBVIOUS
  <2> QED BY <1>5, <2>1
<1> QED BY <1>1, <1>6

\* What is in the list, and what is left of it.
LEMMA WithoutElements ==
    ASSUME NEW T, NEW s \in Seq(T), NEW S
    PROVE  Without(s, S) \in Seq(T) /\ ToSet(Without(s, S)) = ToSet(s) \ S
<1> DEFINE t == Without(s, S)
<1>1. t \in Seq(T) /\ Thins(s, Len(s), S, t) BY WithoutThins
<1> HIDE DEF t
<1>2. PICK e \in [1 .. Len(t) -> 1 .. Len(s)] :
        /\ \A i \in 1 .. Len(t) : t[i] = s[e[i]] /\ t[i] \notin S
        /\ \A k \in 1 .. Len(s) : s[k] \notin S => \E i \in 1 .. Len(t) : e[i] = k
  BY <1>1 DEF Thins
<1>3. DOMAIN t = 1 .. Len(t) /\ DOMAIN s = 1 .. Len(s) BY <1>1
<1>4. ToSet(t) \subseteq ToSet(s) \ S BY <1>2, <1>3 DEF ToSet
<1>5. ToSet(s) \ S \subseteq ToSet(t) BY <1>2, <1>3 DEF ToSet
<1> QED BY <1>1, <1>4, <1>5 DEF t

\* A list without duplicates stays one.
LEMMA WithoutInjective ==
    ASSUME NEW T, NEW s \in Seq(T), NEW S, IsInjective(s)
    PROVE  IsInjective(Without(s, S))
<1> DEFINE t == Without(s, S)
<1>1. t \in Seq(T) /\ Thins(s, Len(s), S, t) BY WithoutThins
<1> HIDE DEF t
<1>2. PICK e \in [1 .. Len(t) -> 1 .. Len(s)] :
        /\ \A i, j \in 1 .. Len(t) : i < j => e[i] < e[j]
        /\ \A i \in 1 .. Len(t) : t[i] = s[e[i]]
  BY <1>1 DEF Thins
<1>3. DOMAIN t = 1 .. Len(t) /\ DOMAIN s = 1 .. Len(s) BY <1>1
<1> SUFFICES ASSUME NEW i \in 1 .. Len(t), NEW j \in 1 .. Len(t), t[i] = t[j] PROVE i = j
  BY <1>3 DEF IsInjective, t
<1>4. e[i] = e[j]
  <2>1. e[i] \in DOMAIN s /\ e[j] \in DOMAIN s /\ s[e[i]] = s[e[j]] BY <1>2, <1>3
  <2>2. \A a, b \in DOMAIN s : s[a] = s[b] => a = b BY DEF IsInjective
  <2> QED BY <2>1, <2>2
<1> QED BY <1>2, <1>4

\* What the other sequence operators do to the set of a list's elements.
LEMMA ListElements ==
    ASSUME NEW T, NEW s \in Seq(T)
    PROVE  /\ ToSet(s) \subseteq T
           /\ \A x : Contains(s, x) <=> x \in ToSet(s)
           /\ \A x \in T : ToSet(Append(s, x)) = ToSet(s) \cup {x}
           /\ s # <<>> => /\ Head(s) \in ToSet(s) /\ Tail(s) \in Seq(T)
                           /\ ToSet(s) = {Head(s)} \cup ToSet(Tail(s))
           /\ \A u \in Seq(T) : ToSet(s \o u) = ToSet(s) \cup ToSet(u)
<1>1. DOMAIN s = 1 .. Len(s) /\ Len(s) \in Nat OBVIOUS
<1>2. ToSet(s) \subseteq T BY DEF ToSet
<1>3. \A x : Contains(s, x) <=> x \in ToSet(s) BY <1>1 DEF Contains, ToSet
<1>4. ASSUME NEW x \in T PROVE ToSet(Append(s, x)) = ToSet(s) \cup {x}
  <2> DEFINE u == Append(s, x)
  <2>1. u \in Seq(T) /\ Len(u) = Len(s) + 1 /\ u[Len(u)] = x
        /\ \A i \in 1 .. Len(s) : u[i] = s[i]
    OBVIOUS
  <2>2. DOMAIN u = 1 .. Len(u) BY <2>1
  <2> HIDE DEF u
  <2>3. \A i \in 1 .. Len(u) : i = Len(u) \/ i \in 1 .. Len(s) BY <1>1, <2>1
  <2>4. ToSet(u) \subseteq ToSet(s) \cup {x} BY <1>1, <2>1, <2>2, <2>3 DEF ToSet
  <2>5. \A i \in 1 .. Len(s) : i \in 1 .. Len(u) BY <1>1, <2>1
  <2>6. Len(u) \in 1 .. Len(u) BY <1>1, <2>1
  <2>7. ToSet(s) \cup {x} \subseteq ToSet(u) BY <1>1, <2>1, <2>2, <2>5, <2>6 DEF ToSet
  <2> QED BY <2>4, <2>7 DEF u
<1>5. ASSUME s # <<>>
      PROVE  /\ Head(s) \in ToSet(s) /\ Tail(s) \in Seq(T)
             /\ ToSet(s) = {Head(s)} \cup ToSet(Tail(s))
  <2> DEFINE u == Tail(s)
  <2>1. Len(s) # 0 BY <1>5
  <2>2. u \in Seq(T) /\ Len(u) = Len(s) - 1 /\ \A i \in 1 .. Len(u) : u[i] = s[i + 1]
    BY <1>5, <2>1
  <2>3. Head(s) = s[1] /\ 1 \in 1 .. Len(s) BY <1>1, <1>5, <2>1
  <2>4. DOMAIN u = 1 .. Len(u) BY <2>2
  <2> HIDE DEF u
  <2>5. \A i \in 1 .. Len(s) : i = 1 \/ (i - 1 \in 1 .. Len(u) /\ u[i - 1] = s[i])
    BY <1>1, <2>2
  <2>6. \A i \in 1 .. Len(u) : i + 1 \in 1 .. Len(s) BY <1>1, <2>2
  <2>7. ToSet(u) \subseteq ToSet(s) BY <1>1, <2>2, <2>4, <2>6 DEF ToSet
  <2>8. ToSet(s) \subseteq {Head(s)} \cup ToSet(u) BY <1>1, <2>3, <2>4, <2>5 DEF ToSet
  <2>9. Head(s) \in ToSet(s) BY <1>1, <2>3 DEF ToSet
  <2> QED BY <2>2, <2>7, <2>8, <2>9 DEF u
<1>6. ASSUME NEW u \in Seq(T) PROVE ToSet(s \o u) = ToSet(s) \cup ToSet(u)
  <2> DEFINE v == s \o u
  <2>1. v \in Seq(T) /\ Len(v) = Len(s) + Len(u)
        /\ (\A i \in 1 .. Len(s) : v[i] = s[i])
        /\ (\A i \in 1 .. Len(u) : v[Len(s) + i] = u[i])
    OBVIOUS
  <2>2. DOMAIN v = 1 .. Len(v) /\ DOMAIN u = 1 .. Len(u) /\ Len(u) \in Nat BY <2>1
  <2> HIDE DEF v
  <2>3. \A i \in 1 .. Len(v) : i \in 1 .. Len(s)
                               \/ (i - Len(s) \in 1 .. Len(u) /\ v[i] = u[i - Len(s)])
    <3> TAKE i \in 1 .. Len(v)
    <3>1. i \in 1 .. Len(s) \/ i - Len(s) \in 1 .. Len(u) BY <1>1, <2>1, <2>2
    <3>2. i - Len(s) \in 1 .. Len(u) => v[Len(s) + (i - Len(s))] = u[i - Len(s)] BY <2>1
    <3>3. Len(s) + (i - Len(s)) = i BY <1>1
    <3> QED BY <3>1, <3>2, <3>3
  <2>4. ToSet(v) \subseteq ToSet(s) \cup ToSet(u) BY <1>1, <2>1, <2>2, <2>3 DEF ToSet
  <2>5. /\ \A i \in 1 .. Len(s) : i \in 1 .. Len(v)
        /\ \A i \in 1 .. Len(u) : Len(s) + i \in 1 .. Len(v)
    BY <1>1, <2>1, <2>2
  <2>6. ToSet(s) \cup ToSet(u) \subseteq ToSet(v) BY <1>1, <2>1, <2>2, <2>5 DEF ToSet
  <2> QED BY <2>4, <2>6 DEF v
<1> QED BY <1>2, <1>3, <1>4, <1>5, <1>6

\* A bounded set of numbers that is not empty has a greatest one.
LEMMA GreatestOf ==
    ASSUME NEW n \in Nat, NEW B \in SUBSET (0 .. n), B # {}
    PROVE  \E b \in B : \A c \in B : c <= b
<1> DEFINE C == {k \in Nat : n - k \in B}
<1>1. \A b \in B : b \in 0 .. n /\ n - b \in C /\ n - (n - b) = b
  <2> TAKE b \in B
  <2>1. b \in 0 .. n OBVIOUS
  <2>2. n - b \in Nat /\ n - (n - b) = b BY <2>1
  <2> QED BY <2>1, <2>2
<1>2. C # {} /\ C \in SUBSET Nat BY <1>1
<1> HIDE DEF C
<1>3. PICK k \in C : \A c \in C : k <= c BY <1>2, LeastOf
<1>4. n - k \in B /\ k \in Nat BY <1>2, <1>3 DEF C
<1>5. \A c \in B : c <= n - k
  <2> TAKE c \in B
  <2>1. c \in 0 .. n /\ k <= n - c BY <1>1, <1>3
  <2> QED BY <1>4, <2>1
<1> QED BY <1>4, <1>5

\* A list whose elements go up still does when some are left out.
Ascending(s) == \A i \in 1 .. Len(s), k \in 1 .. Len(s) : i < k => s[i] < s[k]

LEMMA WithoutAscending ==
    ASSUME NEW s \in Seq(Nat), NEW S, Ascending(s)
    PROVE  Ascending(Without(s, S))
<1> DEFINE t == Without(s, S)
<1>1. t \in Seq(Nat) /\ Thins(s, Len(s), S, t) BY WithoutThins
<1> HIDE DEF t
<1>2. PICK e \in [1 .. Len(t) -> 1 .. Len(s)] :
        /\ \A i, j \in 1 .. Len(t) : i < j => e[i] < e[j]
        /\ \A i \in 1 .. Len(t) : t[i] = s[e[i]]
  BY <1>1 DEF Thins
<1> SUFFICES ASSUME NEW i \in 1 .. Len(t), NEW k \in 1 .. Len(t), i < k PROVE t[i] < t[k]
  BY DEF Ascending, t
<1>3. e[i] \in 1 .. Len(s) /\ e[k] \in 1 .. Len(s) /\ e[i] < e[k] BY <1>2
<1> QED BY <1>2, <1>3 DEF Ascending

\* The head of a list whose elements go up is the least of them.
LEMMA HeadIsLeast ==
    ASSUME NEW s \in Seq(Nat), Ascending(s), s # <<>>
    PROVE  \A x \in ToSet(s) : Head(s) <= x
<1>1. DOMAIN s = 1 .. Len(s) /\ Len(s) \in Nat /\ Len(s) # 0 /\ Head(s) = s[1] OBVIOUS
<1>2. \A i \in 1 .. Len(s) : s[1] <= s[i]
  <2> TAKE i \in 1 .. Len(s)
  <2>1. i = 1 \/ 1 < i OBVIOUS
  <2>2. s[1] \in Nat /\ s[i] \in Nat /\ 1 \in 1 .. Len(s) BY <1>1
  <2>3. CASE i = 1 BY <2>2, <2>3
  <2>4. CASE 1 < i BY <2>2, <2>4 DEF Ascending
  <2> QED BY <2>1, <2>3, <2>4
<1> QED BY <1>1, <1>2 DEF ToSet

================================================================================
