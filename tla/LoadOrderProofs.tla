---------------------------- MODULE LoadOrderProofs ----------------------------
(***************************************************************************)
(* The activation order and its pins, for any mods, files, order and pins. *)
(***************************************************************************)
EXTENDS LoadOrder, ListLemmas, SequenceTheorems

-------------------------------------------------------------------------------
(* Who wins a file *)

Pins == [Files -> Mods \cup {NoMod}]

LEMMA ProvidersAreRanked ==
    ASSUME NEW list \in Seq(Mods), NEW f
    PROVE  /\ DOMAIN list = 1 .. Len(list) /\ Len(list) \in Nat
           /\ Providers(list, f) \subseteq Mods
           /\ \A i \in Ranks(list, f) : i \in 1 .. Len(list) /\ list[i] \in Providers(list, f)
           /\ \A m \in Providers(list, f) : \E i \in Ranks(list, f) : list[i] = m
<1>1. DOMAIN list = 1 .. Len(list) /\ Len(list) \in Nat OBVIOUS
<1> QED BY <1>1 DEF Providers, Ranks, ToSet

\* The provider no other one comes after.
LEMMA LastIs ==
    ASSUME NEW list \in Seq(Mods), NEW f, NEW i \in Ranks(list, f),
           \A j \in Ranks(list, f) : j <= i
    PROVE  LastProvider(list, f) = list[i]
<1>1. \A j \in Ranks(list, f) : j \in Nat BY ProvidersAreRanked
<1>2. \A x \in Ranks(list, f) : (\A y \in Ranks(list, f) : x >= y) => x = i
  <2> TAKE x \in Ranks(list, f)
  <2> HAVE \A y \in Ranks(list, f) : x >= y
  <2>1. x >= i /\ x <= i OBVIOUS
  <2> QED BY <1>1, <2>1
<1>3. \A y \in Ranks(list, f) : i >= y BY <1>1
<1>4. Max(Ranks(list, f)) = i BY <1>2, <1>3 DEF Max
<1> QED BY <1>4 DEF LastProvider

LEMMA LastExists ==
    ASSUME NEW list \in Seq(Mods), NEW f, Providers(list, f) # {}
    PROVE  \E i \in Ranks(list, f) : /\ \A j \in Ranks(list, f) : j <= i
                                     /\ LastProvider(list, f) = list[i]
                                     /\ list[i] \in Providers(list, f)
<1>1. Ranks(list, f) # {} /\ Len(list) \in Nat BY ProvidersAreRanked
<1>2. Ranks(list, f) \in SUBSET (0 .. Len(list)) BY ProvidersAreRanked
<1>3. PICK i \in Ranks(list, f) : \A j \in Ranks(list, f) : j <= i BY <1>1, <1>2, GreatestOf
<1> QED BY <1>3, LastIs, ProvidersAreRanked

\* A winner is a provider, or the game where there is none.
LEMMA WinnerTyped ==
    ASSUME NEW list \in Seq(Mods), NEW pin, NEW f
    PROVE  /\ WinnerOf(list, pin, f) \in Mods \cup {Game}
           /\ WinnerOf(list, pin, f) # NoMod
           /\ Providers(list, f) # {} => WinnerOf(list, pin, f) \in Providers(list, f)
           /\ Providers(list, f) = {} => WinnerOf(list, pin, f) = Game
<1>1. CASE Providers(list, f) = {} BY <1>1, Order_Assumption DEF WinnerOf, Pinned
<1>2. CASE Providers(list, f) # {}
  <2>1. LastProvider(list, f) \in Providers(list, f) BY <1>2, LastExists
  <2>2. WinnerOf(list, pin, f) \in Providers(list, f) BY <1>2, <2>1 DEF WinnerOf, Pinned
  <2> QED BY <1>2, <2>2, ProvidersAreRanked, Order_Assumption
<1> QED BY <1>1, <1>2

\* The order and the pins say nothing of a file that is not shared.
LEMMA OneWinner ==
    ASSUME NEW list \in Seq(Mods), NEW other \in Seq(Mods), NEW pin, NEW pin2, NEW f \in Files,
           Providers(list, f) = Providers(other, f), f \notin Contested(list)
    PROVE  WinnerOf(list, pin, f) = WinnerOf(other, pin2, f)
<1>1. \A m, n \in Providers(list, f) : m = n BY DEF Contested
<1>2. CASE Providers(list, f) = {} BY <1>2, WinnerTyped
<1>3. CASE Providers(list, f) # {} BY <1>1, <1>3, WinnerTyped
<1> QED BY <1>2, <1>3

\* The same providers, the same last one and the same pin: the same winner.
LEMMA SameWinner ==
    ASSUME NEW list, NEW other, NEW pin, NEW f,
           Providers(list, f) = Providers(other, f),
           Providers(list, f) # {} => LastProvider(list, f) = LastProvider(other, f)
    PROVE  WinnerOf(list, pin, f) = WinnerOf(other, pin, f)
BY DEF WinnerOf, Pinned

\* A mod that is enabled comes last.
LEMMA Appended ==
    ASSUME NEW list \in Seq(Mods), NEW m \in Mods, NEW f
    PROVE  /\ Append(list, m) \in Seq(Mods)
           /\ Providers(Append(list, m), f)
                = Providers(list, f) \cup (IF f \in Ships[m] THEN {m} ELSE {})
           /\ f \in Ships[m] => LastProvider(Append(list, m), f) = m
           /\ f \notin Ships[m] /\ Providers(list, f) # {}
              => LastProvider(Append(list, m), f) = LastProvider(list, f)
<1> DEFINE new == Append(list, m)
<1>1. /\ new \in Seq(Mods) /\ Len(new) = Len(list) + 1 /\ Len(list) \in Nat
      /\ new[Len(list) + 1] = m /\ \A i \in 1 .. Len(list) : new[i] = list[i]
  OBVIOUS
<1>2. DOMAIN new = 1 .. (Len(list) + 1) /\ DOMAIN list = 1 .. Len(list) BY <1>1
<1>3. ToSet(new) = ToSet(list) \cup {m} BY ListElements
<1> HIDE DEF new
<1>4. Providers(new, f) = Providers(list, f) \cup (IF f \in Ships[m] THEN {m} ELSE {})
  BY <1>3 DEF Providers
<1>5. \A j \in Ranks(new, f) : j = Len(list) + 1 \/ j \in Ranks(list, f)
  BY <1>1, <1>2 DEF Ranks
<1>6. ASSUME f \in Ships[m] PROVE LastProvider(new, f) = m
  <2>1. Len(list) + 1 \in Ranks(new, f) BY <1>1, <1>2, <1>6 DEF Ranks
  <2>2. \A j \in Ranks(new, f) : j <= Len(list) + 1 BY <1>1, ProvidersAreRanked
  <2> QED BY <1>1, <2>1, <2>2, LastIs
<1>7. ASSUME f \notin Ships[m], Providers(list, f) # {}
      PROVE  LastProvider(new, f) = LastProvider(list, f)
  <2>1. PICK i \in Ranks(list, f) : /\ \A j \in Ranks(list, f) : j <= i
                                    /\ LastProvider(list, f) = list[i]
    BY <1>7, LastExists
  <2>2. i \in 1 .. Len(list) /\ new[i] = list[i] /\ i \in Ranks(new, f)
    BY <1>1, <1>2, ProvidersAreRanked DEF Ranks
  <2>3. \A j \in Ranks(new, f) : j \in Ranks(list, f) BY <1>1, <1>5, <1>7 DEF Ranks
  <2> QED BY <1>1, <2>1, <2>2, <2>3, LastIs
<1> QED BY <1>1, <1>4, <1>6, <1>7 DEF new

\* The mods that leave take their files with them; of the other files the last provider
\* stays the last.
LEMMA LeftOver ==
    ASSUME NEW list \in Seq(Mods), NEW gone, NEW f
    PROVE  /\ Without(list, gone) \in Seq(Mods)
           /\ Providers(Without(list, gone), f) = Providers(list, f) \ gone
           /\ Providers(list, f) \cap gone = {} /\ Providers(list, f) # {}
              => LastProvider(Without(list, gone), f) = LastProvider(list, f)
<1> DEFINE new == Without(list, gone)
<1>1. new \in Seq(Mods) /\ ToSet(new) = ToSet(list) \ gone BY WithoutElements
<1>2. Thins(list, Len(list), gone, new) BY WithoutThins
<1> HIDE DEF new
<1>3. Providers(new, f) = Providers(list, f) \ gone BY <1>1 DEF Providers
<1>4. ASSUME Providers(list, f) \cap gone = {}, Providers(list, f) # {}
      PROVE  LastProvider(new, f) = LastProvider(list, f)
  <2>1. PICK e \in [1 .. Len(new) -> 1 .. Len(list)] :
          /\ \A i, j \in 1 .. Len(new) : i < j => e[i] < e[j]
          /\ \A i \in 1 .. Len(new) : new[i] = list[e[i]]
          /\ \A k \in 1 .. Len(list) : list[k] \notin gone => \E i \in 1 .. Len(new) : e[i] = k
    BY <1>2 DEF Thins
  <2>2. DOMAIN new = 1 .. Len(new) /\ DOMAIN list = 1 .. Len(list) BY <1>1
  <2>3. PICK i \in Ranks(new, f) : /\ \A j \in Ranks(new, f) : j <= i
                                   /\ LastProvider(new, f) = new[i]
    BY <1>1, <1>3, <1>4, LastExists
  <2>4. i \in 1 .. Len(new) /\ e[i] \in Ranks(list, f) /\ new[i] = list[e[i]]
    BY <2>1, <2>2, <2>3 DEF Ranks
  <2>5. \A k \in Ranks(list, f) : k <= e[i]
    <3> TAKE k \in Ranks(list, f)
    <3>1. k \in 1 .. Len(list) /\ list[k] \in Providers(list, f) BY ProvidersAreRanked
    <3>2. PICK j \in 1 .. Len(new) : e[j] = k BY <1>4, <2>1, <3>1
    <3>3. j \in Ranks(new, f) BY <2>1, <2>2, <3>2 DEF Ranks
    <3>4. j <= i BY <2>3, <3>3
    <3>5. j = i \/ j < i BY <2>4, <3>2, <3>4
    <3>6. e[j] = e[i] \/ e[j] < e[i] BY <2>1, <2>4, <3>2, <3>5
    <3>7. e[i] \in 1 .. Len(list) BY <2>1, <2>4
    <3> QED BY <3>1, <3>2, <3>6, <3>7
  <2> QED BY <2>3, <2>4, <2>5, LastIs
<1> QED BY <1>1, <1>3, <1>4 DEF new

-------------------------------------------------------------------------------
(* Moving a block *)

\* e says where, in the block, each of the moved mods is first.
FirstIn(block, moving, e) ==
    /\ e \in [DOMAIN moving -> DOMAIN block]
    /\ \A i, j \in DOMAIN moving : i < j => e[i] < e[j]
    /\ \A i \in DOMAIN moving : /\ moving[i] = block[e[i]]
                                /\ \A j \in 1 .. (e[i] - 1) : block[j] # block[e[i]]

\* Each active mod of the block once, where the block has it first.
LEMMA MovingBlock ==
    ASSUME NEW list \in Seq(Mods), NEW block \in Seq(Mods)
    PROVE  /\ Moving(list, block) \in Seq(Mods)
           /\ ToSet(Moving(list, block)) = ToSet(block) \cap ToSet(list)
           /\ \E e : FirstIn(block, Moving(list, block), e)
<1> DEFINE passed == {i \in DOMAIN block : ~Contains(list, block[i])
                                           \/ \E j \in 1 .. (i - 1) : block[j] = block[i]}
           all    == [i \in DOMAIN block |-> i]
           places == Without(all, passed)
           moving == [k \in DOMAIN places |-> block[places[k]]]
<1>1. DOMAIN block = 1 .. Len(block) /\ Len(block) \in Nat OBVIOUS
<1>2. all \in Seq(Nat) /\ Len(all) = Len(block) /\ \A i \in 1 .. Len(block) : all[i] = i
  BY <1>1
<1>3. moving = Moving(list, block) BY DEF Moving
<1>4. \A i \in DOMAIN block : i \in passed <=>
        block[i] \notin ToSet(list) \/ \E j \in 1 .. (i - 1) : block[j] = block[i]
  BY ListElements
<1> HIDE DEF all, passed
<1>5. places \in Seq(Nat) /\ Thins(all, Len(all), passed, places) BY <1>2, WithoutThins
<1> HIDE DEF places
<1>6. PICK e \in [1 .. Len(places) -> 1 .. Len(block)] :
        /\ \A i, j \in 1 .. Len(places) : i < j => e[i] < e[j]
        /\ \A i \in 1 .. Len(places) : places[i] = all[e[i]] /\ places[i] \notin passed
        /\ \A k \in 1 .. Len(block) : all[k] \notin passed => \E i \in 1 .. Len(places) : e[i] = k
  BY <1>2, <1>5 DEF Thins
<1>7. DOMAIN places = 1 .. Len(places) /\ Len(places) \in Nat BY <1>5
<1>8. \A i \in 1 .. Len(places) : e[i] \in DOMAIN block /\ places[i] = e[i] /\ e[i] \notin passed
  BY <1>1, <1>2, <1>6
<1>9. \A i \in 1 .. Len(places) : moving[i] = block[e[i]] BY <1>7, <1>8
<1>10. moving \in Seq(Mods) /\ DOMAIN moving = 1 .. Len(places)
  <2>1. \A i \in 1 .. Len(places) : moving[i] \in Mods BY <1>8, <1>9
  <2> QED BY <1>7, <2>1
<1> HIDE DEF moving
<1>11. ToSet(moving) = ToSet(block) \cap ToSet(list)
  <2>1. \A i \in 1 .. Len(places) : moving[i] \in ToSet(block) \cap ToSet(list)
    BY <1>4, <1>8, <1>9 DEF ToSet
  <2>2. ASSUME NEW m \in ToSet(block) \cap ToSet(list)
        PROVE  \E i \in 1 .. Len(places) : moving[i] = m
    <3> DEFINE B == {i \in DOMAIN block : block[i] = m}
    <3>1. B # {} /\ B \in SUBSET Nat BY <1>1 DEF ToSet
    <3>2. PICK b \in B : \A c \in B : b <= c BY <3>1, LeastOf
    <3>3. b \in 1 .. Len(block) /\ block[b] = m BY <1>1
    <3>4. \A j \in 1 .. (b - 1) : block[j] # m
      <4> TAKE j \in 1 .. (b - 1)
      <4>1. j \in DOMAIN block /\ ~(b <= j) BY <1>1, <3>3
      <4> QED BY <3>2, <4>1
    <3>5. b \notin passed BY <1>1, <1>4, <3>3, <3>4
    <3>6. PICK i \in 1 .. Len(places) : e[i] = b BY <1>2, <1>6, <3>3, <3>5
    <3> QED BY <1>9, <3>3, <3>6
  <2> QED BY <1>10, <2>1, <2>2 DEF ToSet
<1>12. \A i \in 1 .. Len(places) : \A j \in 1 .. (e[i] - 1) : block[j] # block[e[i]]
  BY <1>4, <1>8
<1>13. e \in [DOMAIN moving -> DOMAIN block] BY <1>1, <1>6, <1>10
<1>14. FirstIn(block, moving, e) BY <1>6, <1>9, <1>10, <1>12, <1>13 DEF FirstIn
<1> QED BY <1>3, <1>10, <1>11, <1>14

\* Where everything is in a list with a block inserted.
LEMMA InsertedPlaces ==
    ASSUME NEW rest \in Seq(Mods), NEW moving \in Seq(Mods), NEW position \in Nat
    PROVE  LET cut == IF position <= Len(rest) THEN position ELSE Len(rest)
               new == Inserted(rest, moving, position)
           IN  /\ new \in Seq(Mods) /\ Len(new) = Len(rest) + Len(moving)
               /\ \A i \in 1 .. cut : new[i] = rest[i]
               /\ \A i \in 1 .. Len(moving) : new[cut + i] = moving[i]
               /\ \A i \in (cut + 1) .. Len(rest) : new[Len(moving) + i] = rest[i]
<1> DEFINE cut == IF position <= Len(rest) THEN position ELSE Len(rest)
           low  == SubSeq(rest, 1, cut)
           high == SubSeq(rest, cut + 1, Len(rest))
           new  == Inserted(rest, moving, position)
<1>1. Len(rest) \in Nat /\ Len(moving) \in Nat /\ cut \in 0 .. Len(rest) OBVIOUS
<1>2. low \in Seq(Mods) /\ Len(low) = cut /\ \A i \in 1 .. cut : low[i] = rest[i] BY <1>1
<1>3. /\ high \in Seq(Mods) /\ Len(high) = Len(rest) - cut
      /\ \A i \in 1 .. (Len(rest) - cut) : high[i] = rest[cut + i]
  <2> HIDE DEF cut
  <2>1. cut + 1 \in 1 .. (Len(rest) + 1) BY <1>1
  <2>2. \A a \in 1 .. (Len(rest) + 1) :
          LET h == SubSeq(rest, a, Len(rest))
          IN  /\ h \in Seq(Mods) /\ Len(h) = Len(rest) - a + 1
              /\ \A i \in 1 .. (Len(rest) - a + 1) : h[i] = rest[a + i - 1]
    <3> TAKE a \in 1 .. (Len(rest) + 1)
    <3> DEFINE h == SubSeq(rest, a, Len(rest))
    <3>1. Len(h) = Len(rest) - a + 1 BY <1>1
    <3>2. \A i \in 1 .. (Len(rest) - a + 1) : h[i] = rest[a + i - 1] BY <1>1
    <3>3. h \in Seq(Mods)
      <4>1. a \in Int /\ Len(rest) \in Int /\ \A i \in a .. Len(rest) : rest[i] \in Mods
        BY <1>1
      <4> HIDE DEF h
      <4>2. SubSeq(rest, a, Len(rest)) \in Seq(Mods) BY <4>1, SubSeqProperties, Zenon
      <4> QED BY <4>2 DEF h
    <3> QED BY <3>1, <3>2, <3>3
  <2>3. Len(rest) - (cut + 1) + 1 = Len(rest) - cut
        /\ \A i \in 1 .. (Len(rest) - cut) : (cut + 1) + i - 1 = cut + i
    BY <1>1
  <2> QED BY <2>1, <2>2, <2>3
<1>4. new = (low \o moving) \o high BY DEF Inserted
<1> HIDE DEF cut, low, high, new
<1>5. /\ low \o moving \in Seq(Mods) /\ Len(low \o moving) = cut + Len(moving)
      /\ \A i \in 1 .. cut : (low \o moving)[i] = low[i]
      /\ \A i \in 1 .. Len(moving) : (low \o moving)[cut + i] = moving[i]
  BY <1>1, <1>2
<1> DEFINE first == low \o moving
<1> HIDE DEF first
<1>6. /\ first \in Seq(Mods) /\ Len(first) = cut + Len(moving)
      /\ \A i \in 1 .. cut : first[i] = low[i]
      /\ \A i \in 1 .. Len(moving) : first[cut + i] = moving[i]
      /\ new = first \o high
  BY <1>4, <1>5 DEF first
<1>7. /\ new \in Seq(Mods) /\ Len(new) = cut + Len(moving) + (Len(rest) - cut)
      /\ \A i \in 1 .. (cut + Len(moving)) : new[i] = first[i]
      /\ \A i \in 1 .. (Len(rest) - cut) : new[cut + Len(moving) + i] = high[i]
  <2>1. ASSUME NEW s \in Seq(Mods), NEW t \in Seq(Mods)
        PROVE  /\ s \o t \in Seq(Mods) /\ Len(s \o t) = Len(s) + Len(t)
               /\ \A i \in 1 .. Len(s) : (s \o t)[i] = s[i]
               /\ \A i \in 1 .. Len(t) : (s \o t)[Len(s) + i] = t[i]
    OBVIOUS
  <2>2. /\ first \o high \in Seq(Mods) /\ Len(first \o high) = Len(first) + Len(high)
        /\ \A i \in 1 .. Len(first) : (first \o high)[i] = first[i]
        /\ \A i \in 1 .. Len(high) : (first \o high)[Len(first) + i] = high[i]
    BY <1>3, <1>6, <2>1
  <2> QED BY <1>3, <1>6, <2>2, Zenon
<1>8. \A i \in 1 .. cut : new[i] = rest[i] BY <1>1, <1>2, <1>6, <1>7
<1>9. \A i \in 1 .. Len(moving) : new[cut + i] = moving[i] BY <1>1, <1>6, <1>7
<1>10. \A i \in (cut + 1) .. Len(rest) : new[Len(moving) + i] = rest[i]
  <2> TAKE i \in (cut + 1) .. Len(rest)
  <2>1. i - cut \in 1 .. (Len(rest) - cut) /\ cut + Len(moving) + (i - cut) = Len(moving) + i
        /\ cut + (i - cut) = i
    BY <1>1
  <2> QED BY <1>3, <1>7, <2>1
<1>11. Len(new) = Len(rest) + Len(moving) BY <1>1, <1>7
<1> QED BY <1>7, <1>8, <1>9, <1>10, <1>11 DEF cut, new

\* Two lists that hold the same mods equally often hold the same mods.
LEMMA PermutedElements ==
    ASSUME NEW s, NEW t, IsPermutation(s, t)
    PROVE  ToSet(s) = ToSet(t)
<1>1. DOMAIN ToBag(s) = DOMAIN ToBag(t) BY DEF IsPermutation
<1>2. DOMAIN ToBag(s) = ToSet(s) /\ DOMAIN ToBag(t) = ToSet(t) BY DEF ToBag, ToSet, Range
<1> QED BY <1>1, <1>2

\* Lists without duplicates that hold the same mods.
LEMMA PermutedLists ==
    ASSUME NEW s, NEW t, IsInjective(s), IsInjective(t), ToSet(s) = ToSet(t)
    PROVE  IsPermutation(s, t)
<1>1. ASSUME NEW u, IsInjective(u), NEW x \in ToSet(u)
      PROVE  Cardinality({i \in DOMAIN u : u[i] = x}) = 1
  <2>1. PICK i \in DOMAIN u : u[i] = x BY DEF ToSet
  <2>2. {j \in DOMAIN u : u[j] = x} = {i} BY <1>1, <2>1 DEF IsInjective
  <2> QED BY <2>2, FS_Singleton
<1>2. Range(s) = ToSet(s) /\ Range(t) = ToSet(t) BY DEF ToSet, Range
<1>3. \A x \in ToSet(s) : Cardinality({i \in DOMAIN s : s[i] = x})
                          = Cardinality({i \in DOMAIN t : t[i] = x})
  BY <1>1
<1> QED BY <1>2, <1>3 DEF IsPermutation, ToBag

\* The length of a list without duplicates.
LEMMA ListLength ==
    ASSUME NEW T, NEW s \in Seq(T), IsInjective(s)
    PROVE  IsFiniteSet(ToSet(s)) /\ Cardinality(ToSet(s)) = Len(s)
<1>1. DOMAIN s = 1 .. Len(s) /\ Len(s) \in Nat OBVIOUS
<1>2. IsFiniteSet(1 .. Len(s)) /\ Cardinality(1 .. Len(s)) = Len(s)
  BY <1>1, FS_Interval
<1>3. s \in Surjection(1 .. Len(s), ToSet(s)) BY <1>1 DEF Surjection, ToSet
<1>4. s \in Injection(1 .. Len(s), ToSet(s)) BY <1>1, <1>3 DEF Surjection, Injection
<1> QED BY <1>2, <1>3, <1>4, FS_Surjection

\* The mods of a list with a block inserted, and where each of them comes from.
LEMMA InsertedZones ==
    ASSUME NEW rest \in Seq(Mods), NEW moving \in Seq(Mods), NEW position \in Nat
    PROVE  LET cut == IF position <= Len(rest) THEN position ELSE Len(rest)
               new == Inserted(rest, moving, position)
           IN  \A i \in 1 .. Len(new) :
                  \/ i \in 1 .. cut /\ new[i] = rest[i]
                  \/ i \in (cut + 1) .. (cut + Len(moving)) /\ new[i] = moving[i - cut]
                  \/ /\ i \in (cut + Len(moving) + 1) .. Len(new)
                     /\ i - Len(moving) \in (cut + 1) .. Len(rest)
                     /\ new[i] = rest[i - Len(moving)]
<1> DEFINE cut == IF position <= Len(rest) THEN position ELSE Len(rest)
           new == Inserted(rest, moving, position)
<1>1. /\ new \in Seq(Mods) /\ Len(new) = Len(rest) + Len(moving)
      /\ \A i \in 1 .. cut : new[i] = rest[i]
      /\ \A i \in 1 .. Len(moving) : new[cut + i] = moving[i]
      /\ \A i \in (cut + 1) .. Len(rest) : new[Len(moving) + i] = rest[i]
  BY InsertedPlaces
<1>2. Len(rest) \in Nat /\ Len(moving) \in Nat /\ cut \in 0 .. Len(rest) OBVIOUS
<1> HIDE DEF cut, new
<1> SUFFICES ASSUME NEW i \in 1 .. Len(new)
             PROVE  \/ i \in 1 .. cut /\ new[i] = rest[i]
                    \/ i \in (cut + 1) .. (cut + Len(moving)) /\ new[i] = moving[i - cut]
                    \/ /\ i \in (cut + Len(moving) + 1) .. Len(new)
                       /\ i - Len(moving) \in (cut + 1) .. Len(rest)
                       /\ new[i] = rest[i - Len(moving)]
  BY DEF cut, new
<1>3. CASE i \in 1 .. cut BY <1>1, <1>3
<1>4. CASE i \in (cut + 1) .. (cut + Len(moving))
  <2>1. i - cut \in 1 .. Len(moving) /\ cut + (i - cut) = i BY <1>2, <1>4
  <2>2. new[cut + (i - cut)] = moving[i - cut] BY <1>1, <2>1
  <2> QED BY <1>4, <2>1, <2>2
<1>5. CASE i \in (cut + Len(moving) + 1) .. Len(new)
  <2>1. i - Len(moving) \in (cut + 1) .. Len(rest) /\ Len(moving) + (i - Len(moving)) = i
    BY <1>1, <1>2, <1>5
  <2>2. new[Len(moving) + (i - Len(moving))] = rest[i - Len(moving)] BY <1>1, <2>1
  <2> QED BY <1>5, <2>1, <2>2
<1>6. \/ i \in 1 .. cut \/ i \in (cut + 1) .. (cut + Len(moving))
      \/ i \in (cut + Len(moving) + 1) .. Len(new)
  BY <1>1, <1>2
<1> QED BY <1>3, <1>4, <1>5, <1>6

\* Inserting a block of mods that are not there adds them, each once.
LEMMA InsertedElements ==
    ASSUME NEW rest \in Seq(Mods), NEW moving \in Seq(Mods), NEW position \in Nat,
           IsInjective(rest), IsInjective(moving), ToSet(rest) \cap ToSet(moving) = {}
    PROVE  /\ ToSet(Inserted(rest, moving, position)) = ToSet(rest) \cup ToSet(moving)
           /\ IsInjective(Inserted(rest, moving, position))
<1> DEFINE cut == IF position <= Len(rest) THEN position ELSE Len(rest)
           new == Inserted(rest, moving, position)
           Low(i)  == i \in 1 .. cut /\ new[i] = rest[i]
           Mid(i)  == i \in (cut + 1) .. (cut + Len(moving)) /\ new[i] = moving[i - cut]
           High(i) == /\ i \in (cut + Len(moving) + 1) .. Len(new)
                      /\ i - Len(moving) \in (cut + 1) .. Len(rest)
                      /\ new[i] = rest[i - Len(moving)]
<1>1. /\ new \in Seq(Mods) /\ Len(new) = Len(rest) + Len(moving)
      /\ \A i \in 1 .. cut : new[i] = rest[i]
      /\ \A i \in 1 .. Len(moving) : new[cut + i] = moving[i]
      /\ \A i \in (cut + 1) .. Len(rest) : new[Len(moving) + i] = rest[i]
  BY InsertedPlaces
<1>2. Len(rest) \in Nat /\ Len(moving) \in Nat /\ cut \in 0 .. Len(rest) OBVIOUS
<1>3. \A i \in 1 .. Len(new) : Low(i) \/ Mid(i) \/ High(i) BY InsertedZones
<1>4. DOMAIN new = 1 .. Len(new) /\ DOMAIN rest = 1 .. Len(rest) /\ DOMAIN moving = 1 .. Len(moving)
  BY <1>1
<1> HIDE DEF cut, new
<1>5. \A i \in 1 .. Len(new) :
         /\ Low(i) => i \in DOMAIN rest /\ new[i] \in ToSet(rest)
         /\ Mid(i) => i - cut \in DOMAIN moving /\ new[i] \in ToSet(moving)
         /\ High(i) => i - Len(moving) \in DOMAIN rest /\ new[i] \in ToSet(rest)
  <2> TAKE i \in 1 .. Len(new)
  <2>1. CASE Low(i)
    <3>1. i \in DOMAIN rest BY <1>2, <1>4, <2>1
    <3> QED BY <1>2, <2>1, <3>1 DEF ToSet
  <2>2. CASE Mid(i)
    <3>1. i - cut \in DOMAIN moving BY <1>2, <1>4, <2>2
    <3> QED BY <1>2, <2>2, <3>1 DEF ToSet
  <2>3. CASE High(i)
    <3>1. i - Len(moving) \in DOMAIN rest BY <1>2, <1>4, <2>3
    <3> QED BY <1>2, <2>3, <3>1 DEF ToSet
  <2> QED BY <1>3, <2>1, <2>2, <2>3
<1>6. ToSet(new) \subseteq ToSet(rest) \cup ToSet(moving)
  <2>1. \A i \in 1 .. Len(new) : new[i] \in ToSet(rest) \cup ToSet(moving) BY <1>3, <1>5
  <2> QED BY <1>4, <2>1 DEF ToSet
<1>7. ToSet(moving) \subseteq ToSet(new)
  <2>1. \A i \in 1 .. Len(moving) : cut + i \in 1 .. Len(new) BY <1>1, <1>2
  <2> QED BY <1>1, <1>4, <2>1 DEF ToSet
<1>8. ToSet(rest) \subseteq ToSet(new)
  <2>1. \A i \in 1 .. Len(rest) : \/ i \in 1 .. cut /\ i \in 1 .. Len(new)
                                  \/ i \in (cut + 1) .. Len(rest) /\ Len(moving) + i \in 1 .. Len(new)
    BY <1>1, <1>2
  <2>2. \A i \in 1 .. Len(rest) : \E j \in 1 .. Len(new) : new[j] = rest[i] BY <1>1, <2>1
  <2> QED BY <1>4, <2>2 DEF ToSet
<1>9. ASSUME NEW i \in 1 .. Len(new), NEW j \in 1 .. Len(new), new[i] = new[j] PROVE i = j
  <2>1. CASE Mid(i)
    <3>1. Mid(j) BY <1>3, <1>5, <1>9, <2>1
    <3>2. i - cut = j - cut BY <1>5, <1>9, <2>1, <3>1 DEF IsInjective
    <3> QED BY <1>2, <3>2
  <2>2. CASE Low(i)
    <3>1. Low(j) \/ High(j) BY <1>3, <1>5, <1>9, <2>2
    <3>2. CASE Low(j) BY <1>5, <1>9, <2>2, <3>2 DEF IsInjective
    <3>3. CASE High(j)
      <4>1. i = j - Len(moving) BY <1>5, <1>9, <2>2, <3>3 DEF IsInjective
      <4> QED BY <1>2, <2>2, <3>3, <4>1
    <3> QED BY <3>1, <3>2, <3>3
  <2>3. CASE High(i)
    <3>1. Low(j) \/ High(j) BY <1>3, <1>5, <1>9, <2>3
    <3>2. CASE Low(j)
      <4>1. j = i - Len(moving) BY <1>5, <1>9, <2>3, <3>2 DEF IsInjective
      <4> QED BY <1>2, <2>3, <3>2, <4>1
    <3>3. CASE High(j)
      <4>1. i - Len(moving) = j - Len(moving) BY <1>5, <1>9, <2>3, <3>3 DEF IsInjective
      <4> QED BY <1>2, <4>1
    <3> QED BY <3>1, <3>2, <3>3
  <2> QED BY <1>3, <2>1, <2>2, <2>3
<1>10. IsInjective(new) BY <1>4, <1>9 DEF IsInjective
<1> QED BY <1>6, <1>7, <1>8, <1>10 DEF new

\* A mod of the block is moved once.
LEMMA MovingInjective ==
    ASSUME NEW list \in Seq(Mods), NEW block \in Seq(Mods)
    PROVE  IsInjective(Moving(list, block))
<1> DEFINE moving == Moving(list, block)
<1>1. moving \in Seq(Mods) BY MovingBlock
<1>2. PICK e : FirstIn(block, moving, e)
  BY MovingBlock
<1> HIDE DEF moving
<1>3. DOMAIN moving = 1 .. Len(moving) /\ DOMAIN block = 1 .. Len(block) BY <1>1
<1>4. ASSUME NEW i \in DOMAIN moving, NEW j \in DOMAIN moving, i < j PROVE moving[i] # moving[j]
  <2>1. e[i] < e[j] /\ e[i] \in 1 .. Len(block) /\ e[j] \in 1 .. Len(block)
    BY <1>2, <1>3, <1>4 DEF FirstIn
  <2>2. e[i] \in 1 .. (e[j] - 1) BY <2>1
  <2> QED BY <1>2, <2>2 DEF FirstIn
<1>5. \A i, j \in DOMAIN moving : i = j \/ i < j \/ j < i BY <1>3
<1> QED BY <1>4, <1>5 DEF IsInjective, moving

\* Placing a block drops no mod, adds none and doubles none.
LEMMA PlacedElements ==
    ASSUME NEW list \in Seq(Mods), NEW block \in Seq(Mods), NEW position \in Nat,
           IsInjective(list)
    PROVE  /\ PlaceBlock(list, block, position) \in Seq(Mods)
           /\ IsInjective(PlaceBlock(list, block, position))
           /\ ToSet(PlaceBlock(list, block, position)) = ToSet(list)
<1> DEFINE moving == Moving(list, block)
           rest   == Without(list, ToSet(moving))
<1>1. /\ moving \in Seq(Mods) /\ IsInjective(moving)
      /\ ToSet(moving) = ToSet(block) \cap ToSet(list)
  BY MovingBlock, MovingInjective
<1>2. rest \in Seq(Mods) /\ ToSet(rest) = ToSet(list) \ ToSet(moving) /\ IsInjective(rest)
  BY WithoutElements, WithoutInjective
<1>3. PlaceBlock(list, block, position) = Inserted(rest, moving, position) BY DEF PlaceBlock
<1> HIDE DEF moving, rest
<1>4. Inserted(rest, moving, position) \in Seq(Mods) BY <1>1, <1>2, InsertedPlaces
<1>5. ToSet(rest) \cap ToSet(moving) = {} BY <1>2
<1>6. /\ ToSet(Inserted(rest, moving, position)) = ToSet(rest) \cup ToSet(moving)
      /\ IsInjective(Inserted(rest, moving, position))
  BY <1>1, <1>2, <1>5, InsertedElements
<1>7. ToSet(rest) \cup ToSet(moving) = ToSet(list) BY <1>1, <1>2
<1> QED BY <1>3, <1>4, <1>6, <1>7

\* Where a mod is first.
LEMMA FirstIs ==
    ASSUME NEW s \in Seq(Mods), NEW i \in DOMAIN s, \A j \in 1 .. (i - 1) : s[j] # s[i]
    PROVE  FirstPlace(s, s[i]) = i
<1> DEFINE places == {k \in DOMAIN s : s[k] = s[i]}
<1>1. DOMAIN s = 1 .. Len(s) /\ Len(s) \in Nat OBVIOUS
<1>2. i \in places /\ \A k \in places : k \in 1 .. Len(s) /\ ~(k \in 1 .. (i - 1)) BY <1>1
<1>3. \A k \in places : i <= k BY <1>1, <1>2
<1>4. \A k \in places : (\A y \in places : k <= y) => k = i BY <1>1, <1>2, <1>3
<1>5. FirstPlace(s, s[i]) = CHOOSE x \in places : \A y \in places : x =< y
  BY DEF FirstPlace, Min
<1> HIDE DEF places
<1> QED BY <1>2, <1>3, <1>4, <1>5

\* In a list without duplicates, where it is at all.
LEMMA OnlyPlace ==
    ASSUME NEW s \in Seq(Mods), IsInjective(s), NEW i \in 1 .. Len(s)
    PROVE  FirstPlace(s, s[i]) = i
<1>1. DOMAIN s = 1 .. Len(s) /\ i \in DOMAIN s OBVIOUS
<1>2. \A j \in 1 .. (i - 1) : j \in DOMAIN s /\ j # i OBVIOUS
<1>3. \A j \in 1 .. (i - 1) : s[j] # s[i] BY <1>1, <1>2 DEF IsInjective
<1> QED BY <1>1, <1>3, FirstIs

\* A placed block lies together at its place and in its own order, and the rest keeps its order.
LEMMA BlockTogether ==
    ASSUME NEW list \in Seq(Mods), IsInjective(list), NEW block \in Seq(Mods), NEW position \in Nat
    PROVE  LET new    == PlaceBlock(list, block, position)
               moved  == ToSet(block) \cap ToSet(list)
               rest   == Without(list, moved)
               before == CHOOSE k \in {position, Len(rest)} : k <= position /\ k <= Len(rest)
           IN  /\ \A x, y \in ToSet(rest) : FirstPlace(list, x) < FirstPlace(list, y)
                                            <=> FirstPlace(new, x) < FirstPlace(new, y)
               /\ \A x, y \in moved : FirstPlace(block, x) < FirstPlace(block, y)
                                      <=> FirstPlace(new, x) < FirstPlace(new, y)
               /\ \A x \in ToSet(list) :
                     x \in moved
                     <=> FirstPlace(new, x) \in (before + 1) .. (before + Len(list) - Len(rest))
<1> DEFINE new    == PlaceBlock(list, block, position)
           moving == Moving(list, block)
           moved  == ToSet(block) \cap ToSet(list)
           rest   == Without(list, moved)
           cut    == IF position <= Len(rest) THEN position ELSE Len(rest)
           before == CHOOSE k \in {position, Len(rest)} : k <= position /\ k <= Len(rest)
<1>1. moving \in Seq(Mods) /\ ToSet(moving) = moved /\ IsInjective(moving)
  BY MovingBlock, MovingInjective
<1>2. rest \in Seq(Mods) /\ ToSet(rest) = ToSet(list) \ moved /\ IsInjective(rest)
  BY WithoutElements, WithoutInjective
<1>3. new = Inserted(rest, moving, position) BY <1>1 DEF PlaceBlock
<1>4. new \in Seq(Mods) /\ IsInjective(new) /\ ToSet(new) = ToSet(list) BY PlacedElements
<1>5. PICK d \in [1 .. Len(rest) -> 1 .. Len(list)] :
        /\ \A i, j \in 1 .. Len(rest) : i < j => d[i] < d[j]
        /\ \A i \in 1 .. Len(rest) : rest[i] = list[d[i]]
  <2>1. Thins(list, Len(list), moved, rest) BY WithoutThins
  <2> HIDE DEF rest, moved, cut, before, moving, new
  <2>2. PICK d \in [1 .. Len(rest) -> 1 .. Len(list)] :
          /\ \A i, j \in 1 .. Len(rest) : i < j => d[i] < d[j]
          /\ \A i \in 1 .. Len(rest) : rest[i] = list[d[i]] /\ rest[i] \notin moved
    BY <2>1 DEF Thins
  <2> QED BY <2>2
<1>6. PICK e : FirstIn(block, moving, e) BY MovingBlock
<1> HIDE DEF new, moving, moved, rest
<1>7. /\ Len(new) = Len(rest) + Len(moving)
      /\ \A i \in 1 .. cut : new[i] = rest[i]
      /\ \A i \in 1 .. Len(moving) : new[cut + i] = moving[i]
      /\ \A i \in (cut + 1) .. Len(rest) : new[Len(moving) + i] = rest[i]
  <2>1. LET ins == Inserted(rest, moving, position)
        IN  /\ Len(ins) = Len(rest) + Len(moving)
            /\ \A i \in 1 .. cut : ins[i] = rest[i]
            /\ \A i \in 1 .. Len(moving) : ins[cut + i] = moving[i]
            /\ \A i \in (cut + 1) .. Len(rest) : ins[Len(moving) + i] = rest[i]
    <3>1. rest \in Seq(Mods) /\ moving \in Seq(Mods) BY <1>1, <1>2
    <3> QED BY <3>1, InsertedPlaces
  <2> HIDE DEF cut
  <2> QED BY <1>3, <2>1
<1>8. Len(rest) \in Nat /\ Len(moving) \in Nat /\ Len(list) \in Nat /\ cut \in 0 .. Len(rest)
  BY <1>1, <1>2
<1>9. before = cut
  <2>1. cut \in {position, Len(rest)} /\ cut <= position /\ cut <= Len(rest) BY <1>8
  <2>2. \A k \in {position, Len(rest)} : k <= position /\ k <= Len(rest) => k = cut BY <1>8
  <2> HIDE DEF cut
  <2> QED BY <2>1, <2>2
<1> HIDE DEF cut, before
<1>10. Len(list) = Len(rest) + Len(moving) BY <1>4, <1>7, ListLength
<1>11. /\ DOMAIN new = 1 .. Len(new) /\ DOMAIN moving = 1 .. Len(moving)
       /\ DOMAIN block = 1 .. Len(block) /\ DOMAIN rest = 1 .. Len(rest)
  BY <1>1, <1>2, <1>4
\* Where the others are.
<1> DEFINE at(i) == IF i \in 1 .. cut THEN i ELSE Len(moving) + i
<1>12. ASSUME NEW i \in 1 .. Len(rest)
       PROVE  /\ FirstPlace(list, rest[i]) = d[i] /\ FirstPlace(new, rest[i]) = at(i)
              /\ at(i) \in 1 .. Len(new) /\ at(i) \notin (cut + 1) .. (cut + Len(moving))
  <2>1. d[i] \in 1 .. Len(list) /\ rest[i] = list[d[i]] BY <1>5
  <2>2. FirstPlace(list, rest[i]) = d[i] BY <2>1, OnlyPlace
  <2>3. at(i) \in 1 .. Len(new) /\ at(i) \notin (cut + 1) .. (cut + Len(moving)) BY <1>7, <1>8
  <2>4. new[at(i)] = rest[i]
    <3>1. i \in 1 .. cut \/ i \in (cut + 1) .. Len(rest) BY <1>8
    <3> QED BY <1>7, <1>8, <3>1
  <2> HIDE DEF at
  <2>5. FirstPlace(new, new[at(i)]) = at(i) BY <1>4, <2>3, OnlyPlace
  <2> QED BY <2>2, <2>3, <2>4, <2>5
<1>13. \A i, j \in 1 .. Len(rest) : i < j => at(i) < at(j) BY <1>8
<1> HIDE DEF at
\* Where the moved ones are.
<1>14. ASSUME NEW i \in 1 .. Len(moving)
       PROVE  FirstPlace(block, moving[i]) = e[i] /\ FirstPlace(new, moving[i]) = cut + i
  <2>1. e[i] \in DOMAIN block /\ moving[i] = block[e[i]]
        /\ \A j \in 1 .. (e[i] - 1) : block[j] # block[e[i]]
    BY <1>6, <1>11 DEF FirstIn
  <2>2. FirstPlace(block, moving[i]) = e[i] BY <2>1, FirstIs
  <2>3. cut + i \in 1 .. Len(new) /\ new[cut + i] = moving[i] BY <1>7, <1>8
  <2> QED BY <1>4, <2>2, <2>3, OnlyPlace
<1>15. \A x \in ToSet(rest) : \E i \in 1 .. Len(rest) : x = rest[i] BY <1>11 DEF ToSet
<1>16. \A x \in moved : \E i \in 1 .. Len(moving) : x = moving[i] BY <1>1, <1>11 DEF ToSet
<1>17. ASSUME NEW x \in ToSet(rest), NEW y \in ToSet(rest)
       PROVE  FirstPlace(list, x) < FirstPlace(list, y) <=> FirstPlace(new, x) < FirstPlace(new, y)
  <2>1. PICK i \in 1 .. Len(rest) : x = rest[i] BY <1>15
  <2>2. PICK j \in 1 .. Len(rest) : y = rest[j] BY <1>15
  <2>3. d[i] < d[j] <=> at(i) < at(j)
    <3>1. d[i] \in 1 .. Len(list) /\ d[j] \in 1 .. Len(list) BY <1>5
    <3>2. at(i) \in 1 .. Len(new) /\ at(j) \in 1 .. Len(new) BY <1>12
    <3>3. i = j \/ i < j \/ j < i OBVIOUS
    <3> QED BY <1>5, <1>7, <1>8, <1>13, <3>1, <3>2, <3>3
  <2> QED BY <1>12, <2>1, <2>2, <2>3
<1>18. ASSUME NEW x \in moved, NEW y \in moved
       PROVE  FirstPlace(block, x) < FirstPlace(block, y) <=> FirstPlace(new, x) < FirstPlace(new, y)
  <2>1. PICK i \in 1 .. Len(moving) : x = moving[i] BY <1>16
  <2>2. PICK j \in 1 .. Len(moving) : y = moving[j] BY <1>16
  <2>3. e[i] < e[j] <=> cut + i < cut + j
    <3>1. e[i] \in 1 .. Len(block) /\ e[j] \in 1 .. Len(block) BY <1>6, <1>11 DEF FirstIn
    <3>2. i = j \/ i < j \/ j < i OBVIOUS
    <3>3. (i < j => e[i] < e[j]) /\ (j < i => e[j] < e[i])
      BY <1>6, <1>11 DEF FirstIn
    <3> QED BY <1>8, <3>1, <3>2, <3>3
  <2> QED BY <1>14, <2>1, <2>2, <2>3
<1>19. ASSUME NEW x \in ToSet(list)
       PROVE  x \in moved <=> FirstPlace(new, x) \in (before + 1) .. (before + Len(list) - Len(rest))
  <2>1. before + Len(list) - Len(rest) = cut + Len(moving) BY <1>8, <1>9, <1>10
  <2>2. CASE x \in moved
    <3>1. PICK i \in 1 .. Len(moving) : x = moving[i] BY <1>16, <2>2
    <3>2. FirstPlace(new, x) = cut + i BY <1>14, <3>1
    <3>3. cut + i \in (cut + 1) .. (cut + Len(moving)) BY <1>8
    <3> QED BY <1>9, <2>1, <2>2, <3>2, <3>3
  <2>3. CASE x \notin moved
    <3>1. PICK i \in 1 .. Len(rest) : x = rest[i] BY <1>2, <1>15, <2>3
    <3>2. FirstPlace(new, x) \notin (cut + 1) .. (cut + Len(moving)) BY <1>12, <3>1
    <3> QED BY <1>9, <2>1, <2>3, <3>2
  <2> QED BY <2>2, <2>3
<1> QED BY <1>17, <1>18, <1>19 DEF new, moved, rest, before

-------------------------------------------------------------------------------
(* Types *)

Steps == {"idle", "commit", "work", "record", "pins"}

CallRecords ==
    [kind : {"none", "pins"} \cup Commands, phase : Steps,
     read : Seq(Mods), readPins : Pins, after : Seq(Mods), pinsAfter : Pins,
     mods : SUBSET Mods, write : [Files -> Mods \cup {Game, NoMod}]]

\* No order, and no order a command is about to write, has a mod twice.
TypeInv == TypeOK /\ \A o \in Ops : IsInjective(call[o].after)

LEMMA TypeInvParts ==
    TypeInv <=> /\ order \in Seq(Mods) /\ IsInjective(order)
                /\ pins \in Pins /\ game \in [Files -> Mods \cup {Game}]
                /\ call \in [Ops -> CallRecords] /\ behind \subseteq Files
                /\ \A o \in Ops : IsInjective(call[o].after)
BY DEF TypeInv, TypeOK, CallRecords, Pins, Steps

LEMMA EmptyCall == NoCall \in CallRecords /\ IsInjective(NoCall.after)
<1>1. NoPins \in Pins /\ NoPins \in [Files -> Mods \cup {Game, NoMod}] BY DEF NoPins, Pins
<1>2. <<>> \in Seq(Mods) /\ IsInjective(<<>>) BY DEF IsInjective
<1> QED BY <1>1, <1>2 DEF NoCall, CallRecords, Commands, Steps

LEMMA CopiesTyped ==
    ASSUME NEW list \in Seq(Mods), NEW pin, NEW S
    PROVE  /\ Copies(list, pin, S) \in [Files -> Mods \cup {Game, NoMod}]
           /\ \A f \in Files : /\ f \in S => Copies(list, pin, S)[f] = WinnerOf(list, pin, f)
                               /\ Copies(list, pin, S)[f] # NoMod <=> f \in S
<1>1. \A f \in Files : WinnerOf(list, pin, f) \in Mods \cup {Game} /\ WinnerOf(list, pin, f) # NoMod
  BY WinnerTyped
<1> QED BY <1>1 DEF Copies

\* What a reorder, a choice of winners or a reapply starts from.
Reorders == {"set", "place", "apply", "reapply"}

Drafts(o) ==
    \E kind \in Reorders, after \in Seq(Mods), pinsAfter \in Pins :
        IsInjective(after) /\ ToSet(after) = ToSet(order) /\ Draft(o, kind, after, pinsAfter)

Leaves(o) == \E kind \in {"disable", "bulk"}, gone \in SUBSET Mods : Leave(o, kind, gone)

LEMMA Reordered ==
    ASSUME NEW list \in Seq(Mods), IsInjective(list), NEW new \in SetToSeqs(ToSet(list))
    PROVE  new \in Seq(Mods) /\ IsInjective(new)
<1>1. Cardinality(ToSet(list)) \in Nat /\ ToSet(list) \subseteq Mods BY ListLength, ListElements
<1>2. new \in [1 .. Cardinality(ToSet(list)) -> Mods]
      /\ \A i, j \in 1 .. Cardinality(ToSet(list)) : i # j => new[i] # new[j]
  BY <1>1 DEF SetToSeqs
<1> QED BY <1>1, <1>2 DEF IsInjective

\* The steps of the model, its four ways to draft an order taken as one.
LEMMA StepIs ==
    ASSUME TypeInv, Next
    PROVE  \E o \in Ops : \/ Drafts(o) \/ Commit(o) \/ (\E m \in Mods : Enable(o, m))
                          \/ Leaves(o) \/ Record(o) \/ ReassertPins(o) \/ Work(o)
                          \/ \E S \in SUBSET Files : RedeployStops(o, S)
<1>1. order \in Seq(Mods) /\ IsInjective(order) /\ pins \in Pins BY TypeInvParts
<1>2. ASSUME NEW o \in Ops, NEW new \in SetToSeqs(ToSet(order)), OrderSet(o, new)
      PROVE  Drafts(o)
  <2>1. new \in Seq(Mods) /\ IsInjective(new) BY <1>1, Reordered
  <2>2. ToSet(new) = ToSet(order) BY <1>2, PermutedElements DEF OrderSet
  <2> QED BY <1>1, <1>2, <2>1, <2>2 DEF OrderSet, Drafts, Reorders
<1>3. ASSUME NEW o \in Ops, NEW new \in SetToSeqs(ToSet(order)), NEW f \in Files,
             NEW m \in Mods \cup {NoMod}, ConflictApply(o, new, [pins EXCEPT ![f] = m])
      PROVE  Drafts(o)
  <2>1. new \in Seq(Mods) /\ IsInjective(new) BY <1>1, Reordered
  <2>2. ToSet(new) = ToSet(order) BY <1>3, PermutedElements DEF ConflictApply
  <2>3. [pins EXCEPT ![f] = m] \in Pins BY <1>1 DEF Pins
  <2> QED BY <1>3, <2>1, <2>2, <2>3 DEF ConflictApply, Drafts, Reorders
<1>4. ASSUME NEW o \in Ops, NEW block \in Blocks, NEW position \in 0 .. Len(order),
             OrderPlace(o, block, position)
      PROVE  Drafts(o)
  <2>1. block \in Seq(Mods) /\ position \in Nat BY <1>1, Order_Assumption
  <2> DEFINE after == PlaceBlock(order, block, position)
  <2>2. after \in Seq(Mods) /\ IsInjective(after) /\ ToSet(after) = ToSet(order)
    BY <1>1, <2>1, PlacedElements
  <2>3. Draft(o, "place", after, pins) BY <1>4 DEF OrderPlace
  <2> HIDE DEF after
  <2> QED BY <1>1, <2>2, <2>3 DEF Drafts, Reorders
<1>5. ASSUME NEW o \in Ops, OrderReapply(o) PROVE Drafts(o)
  BY <1>1, <1>5 DEF OrderReapply, Drafts, Reorders
<1>6. ASSUME NEW o \in Ops, NEW m \in Mods, Disable(o, m) PROVE Leaves(o)
  <2>1. {m} \in SUBSET Mods OBVIOUS
  <2> QED BY <1>6, <2>1 DEF Disable, Leaves
<1>7. ASSUME NEW o \in Ops, NEW wanted \in SUBSET Mods, DisableMany(o, wanted) PROVE Leaves(o)
  <2>1. ToSet(order) \cap wanted \in SUBSET Mods OBVIOUS
  <2> QED BY <1>7, <2>1 DEF DisableMany, Leaves
<1> QED BY <1>2, <1>3, <1>4, <1>5, <1>6, <1>7, Zenon DEF Next

\* A step that changes one command's record, and the rest within its types.
LEMMA OneCallTyped ==
    ASSUME TypeInv, NEW o \in Ops, NEW c \in CallRecords, IsInjective(c.after),
           call' = [call EXCEPT ![o] = c],
           order' \in Seq(Mods), IsInjective(order'), pins' \in Pins,
           game' \in [Files -> Mods \cup {Game}], behind' \subseteq Files
    PROVE  TypeInv'
<1>1. call \in [Ops -> CallRecords] /\ \A p \in Ops : IsInjective(call[p].after) BY TypeInvParts
<1>2. call' \in [Ops -> CallRecords] BY <1>1
<1>3. \A p \in Ops : IsInjective(call'[p].after) BY <1>1
<1> QED BY <1>2, <1>3 DEF TypeInv, TypeOK, CallRecords, Pins, Steps

LEMMA InitTyped == Init => TypeInv
<1> SUFFICES ASSUME Init PROVE TypeInv OBVIOUS
<1>1. call \in [Ops -> CallRecords] /\ \A o \in Ops : IsInjective(call[o].after)
  BY EmptyCall DEF Init
<1>2. order \in Seq(Mods) /\ IsInjective(order) BY DEF Init, IsInjective
<1>3. pins \in Pins BY DEF Init, NoPins, Pins
<1>4. game \in [Files -> Mods \cup {Game}] /\ behind \subseteq Files BY DEF Init
<1> QED BY <1>1, <1>2, <1>3, <1>4, TypeInvParts

\* A redeploy, or a worker, writes copies over the folder.
LEMMA WrittenTyped ==
    ASSUME TypeInv, NEW o \in Ops, NEW S
    PROVE  Written(call[o].write, S) \in [Files -> Mods \cup {Game}]
<1>1. game \in [Files -> Mods \cup {Game}] /\ call[o] \in CallRecords BY TypeInvParts
<1>2. call[o].write \in [Files -> Mods \cup {Game, NoMod}] BY <1>1 DEF CallRecords
<1> QED BY <1>1, <1>2 DEF Written

LEMMA StepTyped == TypeInv /\ [Next]_vars => TypeInv'
<1> SUFFICES ASSUME TypeInv, [Next]_vars PROVE TypeInv' OBVIOUS
<1>1. /\ order \in Seq(Mods) /\ IsInjective(order) /\ pins \in Pins
      /\ game \in [Files -> Mods \cup {Game}] /\ call \in [Ops -> CallRecords]
      /\ behind \subseteq Files /\ \A o \in Ops : IsInjective(call[o].after)
  BY TypeInvParts
<1>2. NoCall \in CallRecords /\ IsInjective(NoCall.after) BY EmptyCall
<1>3. ASSUME NEW o \in Ops, Drafts(o) PROVE TypeInv'
  <2>1. PICK kind \in Reorders, after \in Seq(Mods), pinsAfter \in Pins :
          IsInjective(after) /\ Draft(o, kind, after, pinsAfter)
    BY <1>3 DEF Drafts
  <2> DEFINE c == [NoCall EXCEPT !.kind = kind, !.phase = "commit", !.read = order,
                   !.readPins = pins, !.after = after, !.pinsAfter = pinsAfter]
  <2>2. kind \in Commands BY DEF Reorders, Commands
  <2>3. c \in CallRecords /\ c.after = after BY <1>1, <1>2, <2>1, <2>2 DEF CallRecords, Steps
  <2>4. call' = [call EXCEPT ![o] = c] /\ UNCHANGED <<order, pins, game, behind>>
    BY <2>1 DEF Draft
  <2> HIDE DEF c
  <2> QED BY <1>1, <2>1, <2>3, <2>4, OneCallTyped
<1>4. ASSUME NEW o \in Ops, Commit(o) PROVE TypeInv'
  <2> DEFINE moved == IF call[o].kind = "reapply" THEN Contested(call[o].after)
                      ELSE Handovers(call[o].read, call[o].readPins, call[o].after, call[o].pinsAfter)
                               \cap Contested(call[o].after)
             c == [call[o] EXCEPT !.phase = "work",
                                  !.write = Copies(call[o].after, call[o].pinsAfter, moved)]
  <2>1. call' = [call EXCEPT ![o] = c] /\ UNCHANGED <<game, behind>> BY <1>1, <1>4 DEF Commit
  <2>2. /\ order' \in {call[o].after, order} /\ pins' \in {call[o].pinsAfter, pins}
    BY <1>4 DEF Commit
  <2>3. call[o] \in CallRecords /\ call[o].after \in Seq(Mods) /\ call[o].pinsAfter \in Pins
    BY <1>1 DEF CallRecords
  <2>4. Copies(call[o].after, call[o].pinsAfter, moved) \in [Files -> Mods \cup {Game, NoMod}]
    BY <2>3, CopiesTyped
  <2> HIDE DEF moved
  <2>5. c \in CallRecords /\ c.after = call[o].after BY <2>3, <2>4 DEF CallRecords, Steps
  <2> HIDE DEF c
  <2> QED BY <1>1, <2>1, <2>2, <2>3, <2>5, OneCallTyped
<1>5. ASSUME NEW o \in Ops, NEW m \in Mods, Enable(o, m) PROVE TypeInv'
  <2> DEFINE write == [f \in Files |-> IF f \in Ships[m] THEN m ELSE NoMod]
             c == [NoCall EXCEPT !.kind = "enable", !.phase = "work", !.mods = {m}, !.write = write]
  <2>1. write \in [Files -> Mods \cup {Game, NoMod}] /\ {m} \in SUBSET Mods OBVIOUS
  <2>2. call' = [call EXCEPT ![o] = c] /\ UNCHANGED <<order, pins, game, behind>>
    BY <1>5 DEF Enable
  <2> HIDE DEF write
  <2>3. c \in CallRecords /\ c.after = NoCall.after BY <1>2, <2>1 DEF CallRecords, Steps, Commands
  <2> HIDE DEF c
  <2> QED BY <1>1, <1>2, <2>2, <2>3, OneCallTyped
<1>6. ASSUME NEW o \in Ops, Leaves(o) PROVE TypeInv'
  <2>1. PICK kind \in {"disable", "bulk"}, gone \in SUBSET Mods : Leave(o, kind, gone)
    BY <1>6 DEF Leaves
  <2> DEFINE write == Copies(Without(order, gone), NoPins, UNION {Ships[m] : m \in gone})
             c == [NoCall EXCEPT !.kind = kind, !.phase = "work", !.mods = gone, !.write = write]
  <2>2. write \in [Files -> Mods \cup {Game, NoMod}] BY <1>1, LeftOver, CopiesTyped
  <2>3. call' = [call EXCEPT ![o] = c] /\ UNCHANGED <<order, pins, game, behind>>
    BY <2>1 DEF Leave
  <2> HIDE DEF write
  <2>4. c \in CallRecords /\ c.after = NoCall.after BY <1>2, <2>2 DEF CallRecords, Steps, Commands
  <2> HIDE DEF c
  <2> QED BY <1>1, <1>2, <2>3, <2>4, OneCallTyped
<1>7. ASSUME NEW o \in Ops, Record(o) PROVE TypeInv'
  <2> DEFINE c == IF call[o].kind = "bulk" THEN NoCall ELSE [call[o] EXCEPT !.phase = "pins"]
  <2>1. call' = [call EXCEPT ![o] = c] /\ UNCHANGED <<pins, game, behind>>
    BY <1>1, <1>7 DEF Record
  <2>2. c \in CallRecords /\ IsInjective(c.after) BY <1>1, <1>2 DEF CallRecords, Steps
  <2>3. order' \in Seq(Mods) /\ IsInjective(order')
    <3>1. CASE call[o].kind = "enable"
      <4>1. PICK m \in call[o].mods : order' = IF Contains(order, m) THEN order ELSE Append(order, m)
        BY <1>7, <3>1 DEF Record
      <4>2. m \in Mods BY <1>1 DEF CallRecords
      <4>3. Contains(order, m) \/ IsInjective(Append(order, m))
        BY <1>1, <4>2 DEF Contains, IsInjective
      <4> QED BY <1>1, <4>1, <4>2, <4>3
    <3>2. CASE call[o].kind # "enable"
      <4>1. order' = Without(order, call[o].mods) BY <1>7, <3>2 DEF Record
      <4> QED BY <1>1, <4>1, WithoutElements, WithoutInjective
    <3> QED BY <3>1, <3>2
  <2> HIDE DEF c
  <2> QED BY <1>1, <2>1, <2>2, <2>3, OneCallTyped
<1>8. ASSUME NEW o \in Ops, ReassertPins(o) PROVE TypeInv'
  <2> DEFINE write == Copies(order, pins, PinsToReassert(order, pins))
             c == [NoCall EXCEPT !.kind = "pins", !.phase = "work", !.write = write]
  <2>1. write \in [Files -> Mods \cup {Game, NoMod}] BY <1>1, CopiesTyped
  <2>2. call' = [call EXCEPT ![o] = c] /\ UNCHANGED <<order, pins, game, behind>>
    BY <1>8 DEF ReassertPins
  <2> HIDE DEF write
  <2>3. c \in CallRecords /\ c.after = NoCall.after BY <1>2, <2>1 DEF CallRecords, Steps, Commands
  <2> HIDE DEF c
  <2> QED BY <1>1, <1>2, <2>2, <2>3, OneCallTyped
<1>9. ASSUME NEW o \in Ops, Work(o) PROVE TypeInv'
  <2> DEFINE c == IF call[o].kind \in Toggles THEN [call[o] EXCEPT !.phase = "record"] ELSE NoCall
  <2>1. call' = [call EXCEPT ![o] = c] /\ UNCHANGED <<order, pins>> BY <1>1, <1>9 DEF Work
  <2>2. c \in CallRecords /\ IsInjective(c.after) BY <1>1, <1>2 DEF CallRecords, Steps
  <2>3. game' \in [Files -> Mods \cup {Game}] BY <1>9, WrittenTyped DEF Work
  <2>4. behind' \subseteq Files BY <1>1, <1>9 DEF Work, PinsMissed
  <2> HIDE DEF c
  <2> QED BY <1>1, <2>1, <2>2, <2>3, <2>4, OneCallTyped
<1>10. ASSUME NEW o \in Ops, NEW S \in SUBSET Files, RedeployStops(o, S) PROVE TypeInv'
  <2>1. call' = [call EXCEPT ![o] = NoCall] /\ UNCHANGED <<order, pins>> BY <1>10 DEF RedeployStops
  <2>2. game' \in [Files -> Mods \cup {Game}] BY <1>10, WrittenTyped DEF RedeployStops
  <2>3. behind' \subseteq Files BY <1>1, <1>10 DEF RedeployStops
  <2> QED BY <1>1, <1>2, <2>1, <2>2, <2>3, OneCallTyped
<1>11. CASE UNCHANGED vars BY <1>11 DEF vars, TypeInv, TypeOK
<1>12. CASE Next
  <2>1. PICK o \in Ops : \/ Drafts(o) \/ Commit(o) \/ (\E m \in Mods : Enable(o, m))
                         \/ Leaves(o) \/ Record(o) \/ ReassertPins(o) \/ Work(o)
                         \/ \E S \in SUBSET Files : RedeployStops(o, S)
    BY <1>12, StepIs
  <2> QED BY <1>3, <1>4, <1>5, <1>6, <1>7, <1>8, <1>9, <1>10, <2>1
<1> QED BY <1>11, <1>12

\* The order holds each active mod once, and each command keeps to its types, whatever
\* commands are in flight beside it.
THEOREM TypesHold == Spec => []TypeInv
<1> QED BY InitTyped, StepTyped, PTL DEF Spec

THEOREM TypeCorrect == Spec => []TypeOK
<1>1. TypeInv => TypeOK BY DEF TypeInv
<1> QED BY TypesHold, <1>1, PTL

-------------------------------------------------------------------------------
(* What the game folder holds, one command at a time *)

Right(f) == game[f] = WinnerOf(order, pins, f)

\* A file is its winner's copy, or it is a shared one that was left behind.
Settled(f) == Right(f) \/ (f \in behind /\ f \in Contested(order))

\* What the worker of a toggle copies or puts back: the enabled mod's files, or what goes
\* underneath the files of the mods that leave.
ToggleWrites(o) ==
    IF call[o].kind = "enable"
    THEN \E m \in Mods : /\ call[o].mods = {m} /\ ~Contains(order, m)
                         /\ \A f \in Files : call[o].write[f] = IF f \in Ships[m] THEN m ELSE NoMod
    ELSE call[o].write = Copies(Without(order, call[o].mods), NoPins,
                                UNION {Ships[m] : m \in call[o].mods})

\* The copies of a reorder are the winners of shared files, each file it does not copy is
\* settled already, and a reapply copies every shared file.
ReorderWrites(o) ==
    \A f \in Files :
        /\ call[o].write[f] # NoMod => /\ call[o].write[f] = WinnerOf(order, pins, f)
                                       /\ f \in Contested(order)
        /\ call[o].kind = "reapply" /\ f \in Contested(order) => call[o].write[f] # NoMod
        /\ call[o].kind \in {"set", "place", "apply"} /\ call[o].write[f] # NoMod
           => f \in behind \/ game[f] # call[o].write[f]
        /\ call[o].write[f] = NoMod => Settled(f)

\* The copies are in the folder, the list is not written yet.
ToggleDone(o) ==
    \A f \in Files : IF call[o].write[f] # NoMod THEN game[f] = call[o].write[f] ELSE Settled(f)

CallInv(o) ==
    /\ call[o].phase \in {"idle", "commit"} => \A f \in Files : Settled(f)
    /\ call[o].phase = "commit" =>
          /\ call[o].kind \in Reorders
          /\ call[o].read = order /\ call[o].readPins = pins
          /\ ToSet(call[o].after) = ToSet(order)
    /\ call[o].phase = "work" /\ call[o].kind \in Toggles =>
          ToggleWrites(o) /\ \A f \in Files : Settled(f)
    /\ call[o].phase = "work" /\ call[o].kind \notin Toggles => ReorderWrites(o)
    /\ call[o].phase = "record" =>
          /\ call[o].kind \in Toggles /\ ToggleWrites(o) /\ ToggleDone(o)
          /\ PinsMissed(o) \subseteq behind
    /\ call[o].phase = "pins" =>
          \A f \in Files : Settled(f) \/ f \in PinsToReassert(order, pins)

OrderInv == \A o \in Ops : CallInv(o)

\* No command starts before the one in flight is over.
OneAtATime == \A o, p \in Ops : o = p

\* Adding the enabled mod on top: its files are its own copy or are to be pinned back, and
\* the others have the winner they had.
LEMMA EnabledWinners ==
    ASSUME NEW list \in Seq(Mods), NEW m \in Mods, ~Contains(list, m), NEW pin \in Pins,
           NEW f \in Files
    PROVE  LET new == Append(list, m)
           IN  /\ f \in Ships[m] => m = WinnerOf(new, pin, f) \/ f \in PinsToReassert(new, pin)
               /\ f \notin Ships[m] => /\ WinnerOf(new, pin, f) = WinnerOf(list, pin, f)
                                       /\ f \in Contested(new) <=> f \in Contested(list)
<1> DEFINE new == Append(list, m)
<1>1. /\ new \in Seq(Mods)
      /\ Providers(new, f) = Providers(list, f) \cup (IF f \in Ships[m] THEN {m} ELSE {})
      /\ f \in Ships[m] => LastProvider(new, f) = m
      /\ f \notin Ships[m] /\ Providers(list, f) # {} => LastProvider(new, f) = LastProvider(list, f)
  BY Appended
<1> HIDE DEF new
<1>2. ASSUME f \in Ships[m], m # WinnerOf(new, pin, f) PROVE f \in PinsToReassert(new, pin)
  <2>1. m \in Providers(new, f) /\ LastProvider(new, f) = m BY <1>1, <1>2
  <2>2. Pinned(new, pin, f) /\ pin[f] # m BY <1>2, <2>1 DEF WinnerOf
  <2>3. f \in Contested(new) BY <2>1, <2>2 DEF Contested, Pinned
  <2> QED BY <2>1, <2>2, <2>3 DEF PinsToReassert
<1>3. ASSUME f \notin Ships[m]
      PROVE  /\ WinnerOf(new, pin, f) = WinnerOf(list, pin, f)
             /\ f \in Contested(new) <=> f \in Contested(list)
  <2>1. Providers(new, f) = Providers(list, f) BY <1>1, <1>3
  <2>2. WinnerOf(new, pin, f) = WinnerOf(list, pin, f) BY <1>1, <1>3, <2>1, SameWinner
  <2> QED BY <2>1, <2>2 DEF Contested
<1> QED BY <1>2, <1>3 DEF new

\* Taking mods out of the order: their files fall back to the last provider left, or are to
\* be pinned back, and the others have the winner they had.
LEMMA LeftWinners ==
    ASSUME NEW list \in Seq(Mods), NEW gone \in SUBSET Mods, NEW pin \in Pins, NEW f \in Files
    PROVE  LET new == Without(list, gone)
           IN  /\ f \in UNION {Ships[m] : m \in gone} =>
                     \/ WinnerOf(new, NoPins, f) = WinnerOf(new, pin, f)
                     \/ f \in PinsToReassert(new, pin)
               /\ f \notin UNION {Ships[m] : m \in gone} =>
                     /\ WinnerOf(new, pin, f) = WinnerOf(list, pin, f)
                     /\ f \in Contested(new) <=> f \in Contested(list)
<1> DEFINE new == Without(list, gone)
<1>1. /\ new \in Seq(Mods) /\ Providers(new, f) = Providers(list, f) \ gone
      /\ Providers(list, f) \cap gone = {} /\ Providers(list, f) # {}
         => LastProvider(new, f) = LastProvider(list, f)
  BY LeftOver
<1> HIDE DEF new
<1>2. ASSUME WinnerOf(new, NoPins, f) # WinnerOf(new, pin, f) PROVE f \in PinsToReassert(new, pin)
  <2>1. Providers(new, f) \subseteq Mods BY <1>1, ProvidersAreRanked
  <2>2. ~Pinned(new, NoPins, f) BY <2>1, Order_Assumption DEF Pinned, NoPins
  <2>3. Pinned(new, pin, f) BY <1>2, <2>2 DEF WinnerOf
  <2>4. Providers(new, f) # {} /\ pin[f] \in Providers(new, f) BY <2>3 DEF Pinned
  <2>5. WinnerOf(new, NoPins, f) = LastProvider(new, f) /\ WinnerOf(new, pin, f) = pin[f]
    BY <2>2, <2>3, <2>4 DEF WinnerOf
  <2>6. LastProvider(new, f) \in Providers(new, f) BY <1>1, <2>4, LastExists
  <2>7. f \in Contested(new) BY <1>2, <2>4, <2>5, <2>6 DEF Contested
  <2> QED BY <1>2, <2>3, <2>5, <2>7 DEF PinsToReassert
<1>3. ASSUME f \notin UNION {Ships[m] : m \in gone}
      PROVE  /\ WinnerOf(new, pin, f) = WinnerOf(list, pin, f)
             /\ f \in Contested(new) <=> f \in Contested(list)
  <2>1. Providers(list, f) \cap gone = {} BY <1>3 DEF Providers
  <2>2. Providers(new, f) = Providers(list, f) BY <1>1, <2>1
  <2>3. WinnerOf(new, pin, f) = WinnerOf(list, pin, f) BY <1>1, <2>1, <2>2, SameWinner
  <2> QED BY <2>2, <2>3 DEF Contested
<1> QED BY <1>2, <1>3 DEF new

LEMMA DraftKeeps ==
    ASSUME TypeInv, NEW o \in Ops, CallInv(o), Drafts(o)
    PROVE  CallInv(o)'
<1>1. PICK kind \in Reorders, after \in Seq(Mods), pinsAfter \in Pins :
        ToSet(after) = ToSet(order) /\ Draft(o, kind, after, pinsAfter)
  BY DEF Drafts
<1>2. call \in [Ops -> CallRecords] BY TypeInvParts
<1>3. /\ call'[o].phase = "commit" /\ call'[o].kind = kind /\ call'[o].read = order
      /\ call'[o].readPins = pins /\ call'[o].after = after
      /\ UNCHANGED <<order, pins, game, behind>> /\ call[o].phase = "idle"
  BY <1>1, <1>2 DEF Draft, NoCall
<1>4. \A f \in Files : Settled(f)' BY <1>3 DEF CallInv, Settled, Right
<1> QED BY <1>1, <1>3, <1>4 DEF CallInv

LEMMA CommitKeeps ==
    ASSUME TypeInv, NEW o \in Ops, CallInv(o), Commit(o)
    PROVE  CallInv(o)' /\ ToSet(order') = ToSet(order)
<1> DEFINE moved == IF call[o].kind = "reapply" THEN Contested(call[o].after)
                    ELSE Handovers(call[o].read, call[o].readPins, call[o].after, call[o].pinsAfter)
                             \cap Contested(call[o].after)
<1>1. call \in [Ops -> CallRecords] /\ order \in Seq(Mods) /\ call[o].after \in Seq(Mods)
  BY TypeInvParts DEF CallRecords
<1>2. /\ call[o].phase = "commit" /\ call[o].kind \in Reorders
      /\ call[o].read = order /\ call[o].readPins = pins
      /\ ToSet(call[o].after) = ToSet(order) /\ \A f \in Files : Settled(f)
  BY DEF Commit, CallInv
<1>3. order' = call[o].after /\ pins' = call[o].pinsAfter BY <1>2 DEF Commit
<1>4. /\ call'[o].phase = "work" /\ call'[o].kind = call[o].kind
      /\ call'[o].write = Copies(order', pins', moved)
      /\ UNCHANGED <<game, behind>>
  BY <1>1, <1>3 DEF Commit
<1>5. \A f : Providers(order', f) = Providers(order, f) BY <1>2, <1>3 DEF Providers
<1>6. Contested(order') = Contested(order) BY <1>5 DEF Contested
<1>7. \A f \in Files : f \notin Contested(order) => WinnerOf(order, pins, f) = WinnerOf(order', pins', f)
  BY <1>1, <1>3, <1>5, OneWinner
<1>8. \A f \in Files : /\ f \in moved => call'[o].write[f] = WinnerOf(order', pins', f)
                       /\ call'[o].write[f] # NoMod <=> f \in moved
  BY <1>1, <1>3, <1>4, CopiesTyped
<1>9. /\ moved \subseteq Contested(order')
      /\ call[o].kind = "reapply" => moved = Contested(order')
      /\ call[o].kind # "reapply" =>
            \A f \in Files : f \in moved <=> /\ f \in Contested(order)
                                             /\ WinnerOf(order, pins, f) # WinnerOf(order', pins', f)
  BY <1>2, <1>3, <1>6 DEF Handovers
<1> HIDE DEF moved
<1>10. ASSUME NEW f \in Files
       PROVE  /\ call'[o].write[f] # NoMod => /\ call'[o].write[f] = WinnerOf(order', pins', f)
                                              /\ f \in Contested(order')
              /\ call'[o].kind = "reapply" /\ f \in Contested(order') => call'[o].write[f] # NoMod
              /\ call'[o].kind \in {"set", "place", "apply"} /\ call'[o].write[f] # NoMod
                 => f \in behind' \/ game'[f] # call'[o].write[f]
              /\ call'[o].write[f] = NoMod => Settled(f)'
  <2>1. Settled(f) BY <1>2
  <2>2. f \notin moved => WinnerOf(order, pins, f) = WinnerOf(order', pins', f)
                          \/ call[o].kind = "reapply"
    BY <1>7, <1>9
  <2>3. call'[o].write[f] = NoMod => Settled(f)'
    BY <1>4, <1>6, <1>7, <1>8, <1>9, <2>1, <2>2 DEF Settled, Right
  <2>4. call'[o].kind \in {"set", "place", "apply"} /\ call'[o].write[f] # NoMod
        => f \in behind' \/ game'[f] # call'[o].write[f]
    BY <1>4, <1>8, <1>9, <2>1 DEF Settled, Right
  <2> QED BY <1>4, <1>8, <1>9, <2>3, <2>4
<1>11. ReorderWrites(o)' BY <1>10 DEF ReorderWrites
<1>12. call'[o].kind \notin Toggles BY <1>2, <1>4 DEF Reorders, Toggles
<1> QED BY <1>2, <1>3, <1>4, <1>11, <1>12 DEF CallInv

LEMMA ToggleKeeps ==
    ASSUME TypeInv, NEW o \in Ops, CallInv(o), Leaves(o) \/ \E m \in Mods : Enable(o, m)
    PROVE  CallInv(o)'
<1>1. call \in [Ops -> CallRecords] BY TypeInvParts
<1>2. ASSUME NEW m \in Mods, Enable(o, m) PROVE CallInv(o)'
  <2>1. /\ call[o].phase = "idle" /\ ~Contains(order, m)
        /\ call'[o].phase = "work" /\ call'[o].kind = "enable" /\ call'[o].mods = {m}
        /\ call'[o].write = [f \in Files |-> IF f \in Ships[m] THEN m ELSE NoMod]
        /\ UNCHANGED <<order, pins, game, behind>>
    BY <1>1, <1>2 DEF Enable, NoCall
  <2>2. \A f \in Files : Settled(f)' BY <2>1 DEF CallInv, Settled, Right
  <2>3. /\ ~Contains(order', m)
        /\ \A f \in Files : call'[o].write[f] = IF f \in Ships[m] THEN m ELSE NoMod
    BY <2>1
  <2>4. ToggleWrites(o)' BY <2>1, <2>3 DEF ToggleWrites
  <2> QED BY <2>1, <2>2, <2>4 DEF CallInv, Toggles
<1>3. ASSUME NEW kind \in {"disable", "bulk"}, NEW gone \in SUBSET Mods, Leave(o, kind, gone)
      PROVE  CallInv(o)'
  <2>1. /\ call[o].phase = "idle"
        /\ call'[o].phase = "work" /\ call'[o].kind = kind /\ call'[o].mods = gone
        /\ call'[o].write = Copies(Without(order, gone), NoPins, UNION {Ships[m] : m \in gone})
        /\ UNCHANGED <<order, pins, game, behind>>
    BY <1>1, <1>3 DEF Leave, NoCall
  <2>2. \A f \in Files : Settled(f)' BY <2>1 DEF CallInv, Settled, Right
  <2>3. ToggleWrites(o)' BY <2>1 DEF ToggleWrites
  <2> QED BY <2>1, <2>2, <2>3 DEF CallInv, Toggles
<1> QED BY <1>2, <1>3 DEF Leaves

LEMMA WorkKeeps ==
    ASSUME TypeInv, NEW o \in Ops, CallInv(o), Work(o)
    PROVE  CallInv(o)'
<1>1. call \in [Ops -> CallRecords] /\ behind \subseteq Files BY TypeInvParts
<1>2. /\ call[o].phase = "work" /\ UNCHANGED <<order, pins>>
      /\ \A f \in Files : game'[f] = IF call[o].write[f] # NoMod THEN call[o].write[f] ELSE game[f]
      /\ behind' = IF call[o].kind = "reapply" THEN {} ELSE behind \cup PinsMissed(o)
  BY DEF Work, Written
<1>3. CASE call[o].kind \in Toggles
  <2>1. /\ call'[o].phase = "record" /\ call'[o].kind = call[o].kind
        /\ call'[o].mods = call[o].mods /\ call'[o].write = call[o].write
    BY <1>1, <1>3 DEF Work
  <2>2. behind' = behind \cup PinsMissed(o) BY <1>2, <1>3 DEF Toggles
  <2>3. ToggleWrites(o) /\ \A f \in Files : Settled(f) BY <1>2, <1>3 DEF CallInv
  <2>4. ToggleWrites(o)' BY <1>2, <2>1, <2>3 DEF ToggleWrites
  <2>5. \A f \in Files : IF call'[o].write[f] # NoMod THEN game'[f] = call'[o].write[f]
                                                     ELSE Settled(f)'
    BY <1>2, <2>1, <2>2, <2>3 DEF Settled, Right
  <2>6. ToggleDone(o)' BY <2>5 DEF ToggleDone
  <2>7. PinsMissed(o)' = PinsMissed(o) BY <1>2, <2>1 DEF PinsMissed
  <2> QED BY <1>3, <2>1, <2>2, <2>4, <2>6, <2>7 DEF CallInv
<1>4. CASE call[o].kind \notin Toggles
  <2>1. call'[o].phase = "idle" BY <1>1, <1>4 DEF Work, NoCall
  <2>2. ReorderWrites(o) BY <1>2, <1>4 DEF CallInv
  <2>3. \A f \in Files : Settled(f)'
    <3> TAKE f \in Files
    <3>1. CASE call[o].write[f] # NoMod BY <1>2, <2>2, <3>1 DEF ReorderWrites, Settled, Right
    <3>2. CASE call[o].write[f] = NoMod
      <4>1. Settled(f) /\ (call[o].kind = "reapply" => f \notin Contested(order))
        BY <2>2, <3>2 DEF ReorderWrites
      <4> QED BY <1>2, <3>2, <4>1 DEF Settled, Right
    <3> QED BY <3>1, <3>2
  <2> QED BY <2>1, <2>3 DEF CallInv
<1> QED BY <1>3, <1>4

LEMMA StopKeeps ==
    ASSUME TypeInv, NEW o \in Ops, NEW S \in SUBSET Files, CallInv(o), RedeployStops(o, S)
    PROVE  CallInv(o)'
<1>1. call \in [Ops -> CallRecords] BY TypeInvParts
<1>2. /\ UNCHANGED <<order, pins>> /\ call'[o].phase = "idle"
      /\ \A f \in Files : game'[f] = IF f \in S /\ call[o].write[f] # NoMod
                                     THEN call[o].write[f] ELSE game[f]
      /\ behind' = behind \cup {f \in Files \ S : call[o].write[f] # NoMod}
  BY <1>1 DEF RedeployStops, Written, NoCall
<1>3. ReorderWrites(o) BY DEF RedeployStops, CallInv
<1>4. \A f \in Files : Settled(f)'
  <2> TAKE f \in Files
  <2>1. CASE call[o].write[f] # NoMod /\ f \in S
    BY <1>2, <1>3, <2>1 DEF ReorderWrites, Settled, Right
  <2>2. CASE call[o].write[f] # NoMod /\ f \notin S
    BY <1>2, <1>3, <2>2 DEF ReorderWrites, Settled
  <2>3. CASE call[o].write[f] = NoMod BY <1>2, <1>3, <2>3 DEF ReorderWrites, Settled, Right
  <2> QED BY <2>1, <2>2, <2>3
<1> QED BY <1>2, <1>4 DEF CallInv

LEMMA ReassertKeeps ==
    ASSUME TypeInv, NEW o \in Ops, CallInv(o), ReassertPins(o)
    PROVE  CallInv(o)'
<1>1. call \in [Ops -> CallRecords] /\ order \in Seq(Mods) BY TypeInvParts
<1>2. /\ call[o].phase = "pins" /\ UNCHANGED <<order, pins, game, behind>>
      /\ call'[o].phase = "work" /\ call'[o].kind = "pins"
      /\ call'[o].write = Copies(order, pins, PinsToReassert(order, pins))
  BY <1>1 DEF ReassertPins, NoCall
<1>3. \A f \in Files :
        /\ f \in PinsToReassert(order, pins) => call'[o].write[f] = WinnerOf(order, pins, f)
        /\ call'[o].write[f] # NoMod <=> f \in PinsToReassert(order, pins)
  BY <1>1, <1>2, CopiesTyped
<1>4. \A f \in Files : Settled(f) \/ f \in PinsToReassert(order, pins) BY <1>2 DEF CallInv
<1>5. \A f \in Files : Settled(f)' <=> Settled(f) BY <1>2 DEF Settled, Right
<1>6. PinsToReassert(order, pins) \subseteq Contested(order) BY DEF PinsToReassert
<1>7. \A f \in Files :
        /\ call'[o].write[f] # NoMod => /\ call'[o].write[f] = WinnerOf(order', pins', f)
                                        /\ f \in Contested(order')
        /\ call'[o].write[f] = NoMod => Settled(f)'
  BY <1>2, <1>3, <1>4, <1>5, <1>6
<1>8. ReorderWrites(o)' BY <1>2, <1>7 DEF ReorderWrites
<1> QED BY <1>2, <1>8 DEF CallInv, Toggles

LEMMA RecordKeeps ==
    ASSUME TypeInv, NEW o \in Ops, CallInv(o), Record(o)
    PROVE  CallInv(o)'
<1>1. /\ call \in [Ops -> CallRecords] /\ order \in Seq(Mods) /\ pins \in Pins
      /\ call[o].mods \in SUBSET Mods
  BY TypeInvParts DEF CallRecords
<1>2. /\ call[o].phase = "record" /\ call[o].kind \in Toggles /\ UNCHANGED <<pins, game, behind>>
      /\ ToggleWrites(o) /\ ToggleDone(o) /\ PinsMissed(o) \subseteq behind
  BY DEF Record, CallInv
<1>3. call[o].kind = "bulk" => call'[o].phase = "idle" BY <1>1 DEF Record, NoCall
<1>4. call[o].kind # "bulk" => call'[o].phase = "pins" BY <1>1 DEF Record
<1>5. CASE call[o].kind = "enable"
  <2>1. PICK m \in Mods : /\ call[o].mods = {m} /\ ~Contains(order, m)
                          /\ \A f \in Files : call[o].write[f] = IF f \in Ships[m] THEN m ELSE NoMod
    BY <1>2, <1>5 DEF ToggleWrites
  <2>2. order' = Append(order, m) BY <1>5, <2>1 DEF Record
  <2>3. ASSUME NEW f \in Files PROVE Settled(f)' \/ f \in PinsToReassert(order', pins')
    <3>1. /\ f \in Ships[m] => m = WinnerOf(order', pins, f) \/ f \in PinsToReassert(order', pins)
          /\ f \notin Ships[m] => /\ WinnerOf(order', pins, f) = WinnerOf(order, pins, f)
                                  /\ f \in Contested(order') <=> f \in Contested(order)
      BY <1>1, <2>1, <2>2, EnabledWinners
    <3>2. CASE f \in Ships[m]
      <4>1. game[f] = m BY <1>2, <2>1, <3>2, Order_Assumption DEF ToggleDone
      <4> QED BY <1>2, <3>1, <3>2, <4>1 DEF Settled, Right
    <3>3. CASE f \notin Ships[m]
      <4>1. Settled(f) BY <1>2, <2>1, <3>3 DEF ToggleDone
      <4> QED BY <1>2, <3>1, <3>3, <4>1 DEF Settled, Right
    <3> QED BY <3>2, <3>3
  <2> QED BY <1>4, <1>5, <2>3 DEF CallInv
<1>6. CASE call[o].kind # "enable"
  <2> DEFINE gone == call[o].mods
             shipped == UNION {Ships[m] : m \in gone}
  <2>1. order' = Without(order, gone) /\ call[o].write = Copies(order', NoPins, shipped)
    BY <1>2, <1>6 DEF Record, ToggleWrites
  <2>2. order' \in Seq(Mods) BY <1>1, <2>1, LeftOver
  <2>3. \A f \in Files : /\ f \in shipped => call[o].write[f] = WinnerOf(order', NoPins, f)
                         /\ call[o].write[f] # NoMod <=> f \in shipped
    BY <2>1, <2>2, CopiesTyped
  <2>4. ASSUME NEW f \in Files
        PROVE  /\ f \in shipped => \/ WinnerOf(order', NoPins, f) = WinnerOf(order', pins, f)
                                   \/ f \in PinsToReassert(order', pins)
               /\ f \notin shipped => /\ WinnerOf(order', pins, f) = WinnerOf(order, pins, f)
                                      /\ f \in Contested(order') <=> f \in Contested(order)
    BY <1>1, <2>1, LeftWinners
  <2> HIDE DEF gone, shipped
  <2>5. ASSUME NEW f \in Files
        PROVE  Settled(f)' \/ (f \in PinsToReassert(order', pins') /\ call[o].write[f] # NoMod)
    <3>1. CASE f \in shipped
      <4>1. game[f] = WinnerOf(order', NoPins, f) BY <1>2, <2>3, <3>1 DEF ToggleDone
      <4> QED BY <1>2, <2>3, <2>4, <3>1, <4>1 DEF Settled, Right
    <3>2. CASE f \notin shipped
      <4>1. Settled(f) BY <1>2, <2>3, <3>2 DEF ToggleDone
      <4> QED BY <1>2, <2>4, <3>2, <4>1 DEF Settled, Right
    <3> QED BY <3>1, <3>2
  <2>6. CASE call[o].kind = "bulk"
    <3>1. ASSUME NEW f \in Files, f \in PinsToReassert(order', pins'), call[o].write[f] # NoMod
          PROVE  Settled(f)'
      <4>1. f \in PinsMissed(o) BY <1>2, <2>1, <2>6, <3>1 DEF PinsMissed, gone
      <4>2. f \in behind' /\ f \in Contested(order') BY <1>2, <3>1, <4>1 DEF PinsToReassert
      <4> QED BY <4>2 DEF Settled
    <3>2. \A f \in Files : Settled(f)' BY <2>5, <3>1
    <3> QED BY <1>3, <2>6, <3>2 DEF CallInv
  <2>7. CASE call[o].kind # "bulk" BY <1>4, <2>5, <2>7 DEF CallInv
  <2> QED BY <2>6, <2>7
<1> QED BY <1>5, <1>6

LEMMA InitOrder == Init => OrderInv
<1> SUFFICES ASSUME Init, NEW o \in Ops PROVE CallInv(o) BY DEF OrderInv
<1>1. call[o].phase = "idle" BY DEF Init, NoCall
<1>2. ASSUME NEW f \in Files PROVE Settled(f)
  <2>1. Providers(order, f) = {} BY DEF Init, Providers, ToSet
  <2>2. order \in Seq(Mods) BY DEF Init
  <2>3. WinnerOf(order, pins, f) = Game BY <2>1, <2>2, WinnerTyped
  <2> QED BY <2>3 DEF Init, Settled, Right
<1> QED BY <1>1, <1>2 DEF CallInv

LEMMA StepKeepsOrder ==
    ASSUME OneAtATime
    PROVE  TypeInv /\ OrderInv /\ [Next]_vars => OrderInv'
<1> SUFFICES ASSUME TypeInv, OrderInv, [Next]_vars PROVE OrderInv' OBVIOUS
<1>1. CASE UNCHANGED vars
  <2>1. \A o \in Ops : CallInv(o)' <=> CallInv(o)
    BY <1>1 DEF vars, CallInv, Settled, Right, ToggleWrites, ReorderWrites, ToggleDone, PinsMissed
  <2> QED BY <2>1 DEF OrderInv
<1>2. CASE Next
  <2>1. PICK o \in Ops : \/ Drafts(o) \/ Commit(o) \/ (\E m \in Mods : Enable(o, m))
                         \/ Leaves(o) \/ Record(o) \/ ReassertPins(o) \/ Work(o)
                         \/ \E S \in SUBSET Files : RedeployStops(o, S)
    BY <1>2, StepIs
  <2>2. CallInv(o) BY DEF OrderInv
  <2>3. CallInv(o)'
    BY <2>1, <2>2, DraftKeeps, CommitKeeps, ToggleKeeps, RecordKeeps, ReassertKeeps, WorkKeeps,
       StopKeeps
  <2>4. \A p \in Ops : p = o BY DEF OneAtATime
  <2> QED BY <2>3, <2>4 DEF OrderInv
<1> QED BY <1>1, <1>2

\* What the worker and the lists agree on at each step of a command, when no other is in flight.
THEOREM OrderInvHolds ==
    ASSUME OneAtATime
    PROVE  Spec => [](TypeInv /\ OrderInv)
<1>1. TypeInv /\ OrderInv /\ [Next]_vars => (TypeInv /\ OrderInv)' BY StepTyped, StepKeepsOrder
<1> QED BY InitTyped, InitOrder, <1>1, PTL DEF Spec

\* A file with one active provider or none is never wrong between commands, whatever redeploys
\* were cut short: each worker writes what the order or the pins change, and neither decides
\* anything about a file that is not shared.
THEOREM UncontestedRightHolds ==
    ASSUME OneAtATime
    PROVE  Spec => []UncontestedRight
<1>1. OrderInv => UncontestedRight
  <2> SUFFICES ASSUME OrderInv, Restful, NEW f \in Files \ Contested(order)
               PROVE  game[f] = WinnerOf(order, pins, f)
    BY DEF UncontestedRight
  <2>1. PICK o \in Ops : CallInv(o) /\ call[o].phase = "idle" BY Order_Assumption DEF OrderInv, Restful
  <2> QED BY <2>1 DEF CallInv, Settled, Right
<1> QED BY OrderInvHolds, <1>1, PTL

\* Between commands, every file that no cut redeploy and no bulk disable left behind is its
\* winner's copy.
THEOREM DiskFollowsOrderHolds ==
    ASSUME OneAtATime
    PROVE  Spec => []DiskFollowsOrder
<1>1. OrderInv => DiskFollowsOrder
  <2> SUFFICES ASSUME OrderInv, Restful, NEW f \in Files \ behind
               PROVE  game[f] = WinnerOf(order, pins, f)
    BY DEF DiskFollowsOrder
  <2>1. PICK o \in Ops : CallInv(o) /\ call[o].phase = "idle" BY Order_Assumption DEF OrderInv, Restful
  <2> QED BY <2>1 DEF CallInv, Settled, Right
<1> QED BY OrderInvHolds, <1>1, PTL

\* A reapply that runs to its end leaves every file its winner's copy.
THEOREM ReapplyRepairsHolds ==
    ASSUME OneAtATime
    PROVE  Spec => ReapplyRepairs
<1> DEFINE Repaired(o) ==
      /\ call[o].kind = "reapply" /\ call[o].phase = "work"
      /\ game' = Written(call[o].write, Files) /\ call'[o].phase = "idle"
      => \A f \in Files : game'[f] = WinnerOf(order, pins, f)
<1>1. ASSUME OrderInv, NEW o \in Ops PROVE Repaired(o)
  <2> SUFFICES ASSUME call[o].kind = "reapply", call[o].phase = "work",
                      game' = Written(call[o].write, Files), NEW f \in Files
               PROVE  game'[f] = WinnerOf(order, pins, f)
    OBVIOUS
  <2>1. ReorderWrites(o) BY <1>1 DEF OrderInv, CallInv, Toggles
  <2>2. CASE call[o].write[f] # NoMod BY <2>1, <2>2 DEF ReorderWrites, Written
  <2>3. CASE call[o].write[f] = NoMod
    <3>1. f \notin Contested(order) /\ Settled(f) BY <2>1, <2>3 DEF ReorderWrites
    <3> QED BY <2>3, <3>1 DEF Settled, Right, Written
  <2> QED BY <2>2, <2>3
<1>2. TypeInv /\ OrderInv /\ [Next]_vars => [\A o \in Ops : Repaired(o)]_vars BY <1>1
<1> QED BY OrderInvHolds, <1>2, PTL DEF Spec, ReapplyRepairs

\* The files a preview announces are the ones that change hands when it is applied.
THEOREM PreviewIsWhatChangesHolds ==
    ASSUME OneAtATime
    PROVE  Spec => PreviewIsWhatChanges
<1> DEFINE AsAnnounced(o) ==
      call[o].kind \in {"set", "place", "apply"} /\ call[o].phase = "work"
      => \A f \in Files \ behind' : game'[f] # game[f] <=> call[o].write[f] # NoMod
<1>1. ASSUME TypeInv, OrderInv, Next, NEW o \in Ops PROVE AsAnnounced(o)
  <2> SUFFICES ASSUME call[o].kind \in {"set", "place", "apply"}, call[o].phase = "work",
                      NEW f \in Files \ behind'
               PROVE  game'[f] # game[f] <=> call[o].write[f] # NoMod
    OBVIOUS
  <2>1. ReorderWrites(o) BY <1>1 DEF OrderInv, CallInv, Toggles
  <2>2. call[o].write[f] # NoMod => f \in behind \/ game[f] # call[o].write[f]
    BY <2>1 DEF ReorderWrites
  <2>3. Work(o) \/ \E S \in SUBSET Files : RedeployStops(o, S)
    <3>1. PICK p \in Ops : \/ Drafts(p) \/ Commit(p) \/ (\E m \in Mods : Enable(p, m))
                           \/ Leaves(p) \/ Record(p) \/ ReassertPins(p) \/ Work(p)
                           \/ \E S \in SUBSET Files : RedeployStops(p, S)
      BY <1>1, StepIs
    <3>2. p = o BY DEF OneAtATime
    <3> QED BY <3>1, <3>2 DEF Drafts, Draft, Commit, Enable, Leaves, Leave, Record, ReassertPins
  <2>4. CASE Work(o)
    <3>1. /\ game'[f] = IF call[o].write[f] # NoMod THEN call[o].write[f] ELSE game[f]
          /\ behind \subseteq behind'
      BY <2>4 DEF Work, Written
    <3> QED BY <2>2, <3>1
  <2>5. ASSUME NEW S \in SUBSET Files, RedeployStops(o, S)
        PROVE  game'[f] # game[f] <=> call[o].write[f] # NoMod
    <3>1. /\ game'[f] = IF f \in S /\ call[o].write[f] # NoMod THEN call[o].write[f] ELSE game[f]
          /\ behind' = behind \cup {g \in Files \ S : call[o].write[g] # NoMod}
      BY <2>5 DEF RedeployStops, Written
    <3> QED BY <2>2, <3>1
  <2> QED BY <2>3, <2>4, <2>5
<1>2. TypeInv /\ OrderInv /\ [Next]_vars => [\A o \in Ops : AsAnnounced(o)]_vars BY <1>1
<1> QED BY OrderInvHolds, <1>2, PTL DEF Spec, PreviewIsWhatChanges

\* A placed block lies together at its place and in its own order, the rest keeps its order,
\* and no mod is added, dropped or doubled, for any block, list and place.
THEOREM PlacedTogetherHolds == Spec => []PlacedTogether
<1>1. TypeInv => PlacedTogether
  <2> SUFFICES ASSUME TypeInv PROVE PlacedTogether OBVIOUS
  <2>1. order \in Seq(Mods) /\ IsInjective(order) BY TypeInvParts
  <2>2. ASSUME NEW block \in Blocks, NEW position \in 0 .. (Len(order) + 1)
        PROVE  block \in Seq(Mods) /\ position \in Nat
               /\ IsPermutation(order, PlaceBlock(order, block, position))
    <3>1. block \in Seq(Mods) /\ position \in Nat BY <2>1, Order_Assumption
    <3> QED BY <2>1, <3>1, PlacedElements, PermutedLists
  <2> QED BY <2>1, <2>2, BlockTogether DEF PlacedTogether
<1> QED BY TypesHold, <1>1, PTL

================================================================================
