---------------------------- MODULE Zones_proofs ----------------------------
(* Proofs about Zones, for any owners, names, limits and bounds.  A list of zones is *)
(* reasoned about by the places of its rows: Rank orders them and Nth is its inverse; *)
(* what deletion and eviction leave is a part of the list, row for row (Thins).       *)
EXTENDS Zones, FiniteSetTheorems, SequenceTheorems, TLAPS

------------------------------------------------------------------------------
(* Zones: places in a sequence *)

LEMMA RankOrder ==
  ASSUME NEW places \in SUBSET Nat, IsFiniteSet(places)
  PROVE  /\ Cardinality(places) \in Nat
         /\ \A i \in places : Rank(places, i) \in 1..Cardinality(places)
         /\ \A i, j \in places : i < j => Rank(places, i) < Rank(places, j)
<1> DEFINE upTo(x) == {y \in places : y <= x}
<1>1. ASSUME NEW i \in places
      PROVE  IsFiniteSet(upTo(i)) /\ Cardinality(upTo(i)) \in 1..Cardinality(places)
  <2>1. upTo(i) \in SUBSET places /\ i \in upTo(i)
    OBVIOUS
  <2>2. /\ IsFiniteSet(upTo(i)) /\ Cardinality(upTo(i)) <= Cardinality(places)
        /\ Cardinality(upTo(i)) \in Nat /\ Cardinality(places) \in Nat
    BY <2>1, FS_Subset, FS_CardinalityType
  <2>3. Cardinality(upTo(i)) # 0
    BY <2>1, <2>2, FS_EmptySet
  <2> QED
    BY <2>2, <2>3
<1>2. ASSUME NEW i \in places, NEW j \in places, i < j
      PROVE  Cardinality(upTo(i)) < Cardinality(upTo(j))
  <2>1. upTo(i) \in SUBSET upTo(j) /\ j \in upTo(j) /\ j \notin upTo(i)
    <3>1. i \in Nat /\ j \in Nat
      OBVIOUS
    <3>2. ASSUME NEW k \in upTo(i) PROVE k \in upTo(j)
      <4>1. k \in Nat /\ k <= i
        OBVIOUS
      <4> QED
        BY <1>2, <3>1, <4>1
    <3>3. upTo(i) \in SUBSET upTo(j)
      BY <3>2
    <3>4. j \in upTo(j)
      BY <3>1
    <3>5. j \notin upTo(i)
      BY <1>2, <3>1
    <3> QED
      BY <3>3, <3>4, <3>5
  <2>2. IsFiniteSet(upTo(j))
    BY <1>1
  <2>3. Cardinality(upTo(i)) <= Cardinality(upTo(j)) /\ Cardinality(upTo(i)) # Cardinality(upTo(j))
    BY <2>1, <2>2, FS_Subset
  <2> QED
    BY <1>1, <2>3
<1> QED
  BY <1>1, <1>2, FS_CardinalityType DEF Rank

LEMMA NthPlace ==
  ASSUME NEW places \in SUBSET Nat, IsFiniteSet(places)
  PROVE  /\ \A k \in 1..Cardinality(places) :
                Nth(places, k) \in places /\ Rank(places, Nth(places, k)) = k
         /\ \A i \in places : Nth(places, Rank(places, i)) = i
         /\ \A k, l \in 1..Cardinality(places) : k < l => Nth(places, k) < Nth(places, l)
<1> DEFINE n == Cardinality(places)
           rank == [x \in places |-> Rank(places, x)]
<1>0. \A i, j \in places : i < j => Rank(places, i) < Rank(places, j)
  BY RankOrder
<1>1. n \in Nat /\ IsFiniteSet(1..n) /\ Cardinality(1..n) = n
  BY RankOrder, FS_Interval
<1>2. rank \in Injection(places, 1..n)
  BY RankOrder DEF Injection, IsInjective
<1>3. rank \in Surjection(places, 1..n)
  BY <1>1, <1>2, FS_Injection
<1>4. ASSUME NEW k \in 1..n PROVE Nth(places, k) \in places /\ Rank(places, Nth(places, k)) = k
  <2>1. \E i \in places : Rank(places, i) = k
    BY <1>3 DEF Surjection
  <2> QED
    BY <2>1 DEF Nth
<1>5. ASSUME NEW i \in places PROVE Nth(places, Rank(places, i)) = i
  <2>1. Rank(places, i) \in 1..n
    BY RankOrder
  <2>2. Nth(places, Rank(places, i)) \in places /\ Rank(places, Nth(places, Rank(places, i))) = Rank(places, i)
    BY <1>4, <2>1
  <2> DEFINE j == Nth(places, Rank(places, i))
  <2>3. i \in Nat /\ j \in Nat /\ Rank(places, j) = Rank(places, i) /\ Rank(places, i) \in Nat
    <3>1. i \in Nat
      OBVIOUS
    <3>2. j \in Nat
      BY <2>2
    <3>3. Rank(places, i) \in Nat
      BY <1>1, <2>1
    <3> QED
      BY <2>2, <3>1, <3>2, <3>3
  <2>4. ~(i < j)
    BY <1>0, <2>2, <2>3
  <2>5. ~(j < i)
    BY <1>0, <2>2, <2>3
  <2> QED
    BY <2>3, <2>4, <2>5
<1>6. ASSUME NEW k \in 1..n, NEW l \in 1..n, k < l PROVE Nth(places, k) < Nth(places, l)
  <2> DEFINE i == Nth(places, k)
             j == Nth(places, l)
  <2>1. i \in places /\ j \in places /\ Rank(places, i) = k /\ Rank(places, j) = l
    BY <1>4
  <2>2. i \in Nat /\ j \in Nat /\ k \in Nat /\ l \in Nat /\ i # j
    <3>1. i \in Nat
      BY <2>1
    <3>2. j \in Nat
      BY <2>1
    <3>3. k \in Nat /\ l \in Nat
      BY <1>1
    <3>4. k # l
      BY <1>6, <3>3
    <3>5. i # j
      BY <2>1, <3>4
    <3> QED
      BY <3>1, <3>2, <3>3, <3>5
  <2>3. ~(j < i)
    BY <1>0, <1>6, <2>1, <2>2
  <2> QED
    BY <2>2, <2>3
<1> QED
  BY <1>4, <1>5, <1>6

LEMMA PickedRows ==
  ASSUME NEW T, NEW s \in Seq(T), NEW places \in SUBSET DOMAIN s
  PROVE  /\ IsFiniteSet(places) /\ Cardinality(places) \in Nat
         /\ Picked(s, places) \in Seq(T)
         /\ DOMAIN Picked(s, places) = 1..Cardinality(places)
         /\ \A k \in 1..Cardinality(places) :
                Nth(places, k) \in places /\ Picked(s, places)[k] = s[Nth(places, k)]
<1>1. places \in SUBSET Nat /\ IsFiniteSet(places)
  <2>1. DOMAIN s = 1..Len(s) /\ Len(s) \in Nat
    OBVIOUS
  <2>2. IsFiniteSet(1..Len(s))
    BY <2>1, FS_Interval
  <2> QED
    BY <2>1, <2>2, FS_Subset
<1>2. Cardinality(places) \in Nat
  BY <1>1, FS_CardinalityType
<1>3. \A k \in 1..Cardinality(places) : Nth(places, k) \in places
  BY <1>1, NthPlace
<1>4. Picked(s, places) \in [1..Cardinality(places) -> T]
  BY <1>3 DEF Picked
<1>5. Picked(s, places) \in Seq(T)
  BY <1>2, <1>4
<1> QED
  BY <1>1, <1>2, <1>3, <1>4, <1>5 DEF Picked

\* As many of the rows picked come from some of the places as there are such places.
LEMMA PickedCount ==
  ASSUME NEW places \in SUBSET Nat, IsFiniteSet(places), NEW some \in SUBSET places
  PROVE  LET picks == {k \in 1..Cardinality(places) : Nth(places, k) \in some}
         IN  IsFiniteSet(picks) /\ Cardinality(picks) = Cardinality(some)
<1> DEFINE picks == {k \in 1..Cardinality(places) : Nth(places, k) \in some}
           rank == [x \in some |-> Rank(places, x)]
<1>1. \A i \in some : Rank(places, i) \in 1..Cardinality(places) /\ Nth(places, Rank(places, i)) = i
  BY RankOrder, NthPlace
<1>2. rank \in [some -> picks]
  BY <1>1
<1>3. \A i, j \in some : rank[i] = rank[j] => i = j
  <2>1. \A i \in some : rank[i] = Rank(places, i)
    OBVIOUS
  <2> QED
    BY <1>1, <2>1
<1>4. \A k \in picks : \E i \in some : rank[i] = k
  <2>1. \A k \in picks : Nth(places, k) \in some /\ Rank(places, Nth(places, k)) = k
    BY NthPlace
  <2> QED
    BY <2>1
<1> HIDE DEF rank
<1>5. rank \in Bijection(some, picks)
  BY <1>2, <1>3, <1>4 DEF Bijection, Injection, Surjection, IsInjective
<1>6. ExistsBijection(some, picks)
  BY <1>5 DEF ExistsBijection
<1>7. IsFiniteSet(some)
  BY FS_Subset
<1> HIDE DEF picks
<1>8. IsFiniteSet(picks) /\ Cardinality(picks) = Cardinality(some)
  BY <1>6, <1>7, FS_Bijection
<1> QED
  BY <1>8 DEF picks

------------------------------------------------------------------------------
(* Zones: what deleting rows leaves *)

ZnRows == Rows \cup {Gone}

\* Rows of t are rows of s, each at most once, or gone.
Thins(t, s) ==
    \E from \in [DOMAIN t -> DOMAIN s] :
        /\ \A k \in DOMAIN t : t[k] # Gone => t[k] = s[from[k]]
        /\ \A k, l \in DOMAIN t : from[k] = from[l] => k = l

Struck(s, doomed) == [i \in DOMAIN s |-> IF i \in doomed THEN Gone ELSE s[i]]

LEMMA StruckRows ==
  ASSUME NEW s \in Seq(ZnRows), NEW doomed
  PROVE  /\ Struck(s, doomed) \in Seq(ZnRows) /\ DOMAIN Struck(s, doomed) = DOMAIN s
         /\ ActiveRows(Struck(s, doomed)) = ActiveRows(s) \ doomed
<1>1. DOMAIN s = 1..Len(s) /\ Len(s) \in Nat /\ \A i \in DOMAIN s : s[i] \in ZnRows
  OBVIOUS
<1>2. Struck(s, doomed) \in [1..Len(s) -> ZnRows]
  BY <1>1 DEF Struck, ZnRows
<1>3. Struck(s, doomed) \in Seq(ZnRows)
  BY <1>1, <1>2
<1> QED
  BY <1>1, <1>3 DEF Struck, ActiveRows

LEMMA ForgetThins ==
  ASSUME NEW s \in Seq(ZnRows)
  PROVE  /\ Forget(s) \in Seq(ZnRows)
         /\ \E from \in [DOMAIN Forget(s) -> DOMAIN s] :
                /\ \A k \in DOMAIN Forget(s) : Forget(s)[k] = s[from[k]]
                /\ \A k, l \in DOMAIN Forget(s) : from[k] = from[l] => k = l
<1> DEFINE places == {i \in DOMAIN s : i <= BackfillDepth \/ s[i] # Gone}
           n == Cardinality(places)
           from == [k \in 1..n |-> Nth(places, k)]
<1>1. Forget(s) = Picked(s, places)
  BY DEF Forget
<1>2. places \in SUBSET DOMAIN s /\ places \in SUBSET Nat
  <2>1. DOMAIN s \subseteq Nat
    OBVIOUS
  <2> QED
    BY <2>1
<1> HIDE DEF places
<1>3. /\ IsFiniteSet(places) /\ n \in Nat /\ Picked(s, places) \in Seq(ZnRows)
      /\ DOMAIN Picked(s, places) = 1..n
      /\ \A k \in 1..n : Nth(places, k) \in places /\ Picked(s, places)[k] = s[Nth(places, k)]
  BY <1>2, PickedRows
<1>4. \A k \in 1..n : Rank(places, Nth(places, k)) = k
  BY <1>2, <1>3, NthPlace
<1>5. from \in [1..n -> DOMAIN s]
  BY <1>2, <1>3
<1>6. \A k \in 1..n : from[k] = Nth(places, k)
  OBVIOUS
<1> HIDE DEF from, n
<1>7. \A k, l \in 1..n : from[k] = from[l] => k = l
  BY <1>4, <1>6
<1>8. \A k \in 1..n : Picked(s, places)[k] = s[from[k]]
  BY <1>3, <1>6
<1> QED
  BY <1>1, <1>3, <1>5, <1>7, <1>8

LEMMA SoftDeleteThins ==
  ASSUME NEW s \in Seq(ZnRows), NEW doomed
  PROVE  SoftDelete(s, doomed) \in Seq(ZnRows) /\ Thins(SoftDelete(s, doomed), s)
<1> DEFINE u == Struck(s, doomed)
           t == Forget(u)
<1>1. SoftDelete(s, doomed) = t
  BY DEF SoftDelete, Struck
<1>2. u \in Seq(ZnRows) /\ DOMAIN u = DOMAIN s /\ \A i \in DOMAIN s : u[i] # Gone => u[i] = s[i]
  BY StruckRows DEF Struck
<1> HIDE DEF u
<1>3. t \in Seq(ZnRows)
  BY <1>2, ForgetThins
<1>4. PICK from \in [DOMAIN t -> DOMAIN u] :
          /\ \A k \in DOMAIN t : t[k] = u[from[k]]
          /\ \A k, l \in DOMAIN t : from[k] = from[l] => k = l
  BY <1>2, ForgetThins
<1> HIDE DEF t
<1>5. from \in [DOMAIN t -> DOMAIN s] /\ \A k \in DOMAIN t : t[k] # Gone => t[k] = s[from[k]]
  BY <1>2, <1>4
<1>6. Thins(t, s)
  BY <1>4, <1>5 DEF Thins
<1> QED
  BY <1>1, <1>3, <1>6

LEMMA RowCounts ==
  ASSUME NEW s \in Seq(ZnRows)
  PROVE  /\ IsFiniteSet(ActiveRows(s)) /\ Cardinality(ActiveRows(s)) \in Nat
         /\ IsFiniteSet(PrimaryRows(s)) /\ Primaries(s) \in Nat
         /\ IsFiniteSet(SecondaryRows(s)) /\ Secondaries(s) \in Nat
         /\ PrimaryRows(s) \subseteq ActiveRows(s) /\ SecondaryRows(s) \subseteq ActiveRows(s)
         /\ ActiveRows(s) \in SUBSET Nat /\ ActiveRows(s) \in SUBSET DOMAIN s
         /\ ActiveRows(s) = PrimaryRows(s) \cup SecondaryRows(s)
<1>1. DOMAIN s = 1..Len(s) /\ Len(s) \in Nat
  OBVIOUS
<1>2. IsFiniteSet(DOMAIN s)
  BY <1>1, FS_Interval
<1>3. /\ ActiveRows(s) \in SUBSET DOMAIN s /\ PrimaryRows(s) \in SUBSET DOMAIN s
      /\ SecondaryRows(s) \in SUBSET DOMAIN s
  BY DEF ActiveRows, PrimaryRows, SecondaryRows
<1>4. IsFiniteSet(ActiveRows(s)) /\ IsFiniteSet(PrimaryRows(s)) /\ IsFiniteSet(SecondaryRows(s))
  BY <1>2, <1>3, FS_Subset
<1>5. ActiveRows(s) = PrimaryRows(s) \cup SecondaryRows(s)
  BY DEF ActiveRows, PrimaryRows, SecondaryRows, IsPrimary, IsSecondary
<1>6. ActiveRows(s) \in SUBSET Nat
  BY <1>1, <1>3
<1> QED
  BY <1>3, <1>4, <1>5, <1>6, FS_CardinalityType DEF Primaries, Secondaries

\* Rows that are some of others are no more than those.
LEMMA FewerRows ==
  ASSUME NEW t, NEW s, NEW from \in [DOMAIN t -> DOMAIN s],
         \A k, l \in DOMAIN t : from[k] = from[l] => k = l,
         NEW mine \in SUBSET DOMAIN t, NEW theirs, IsFiniteSet(theirs),
         \A k \in mine : from[k] \in theirs
  PROVE  Cardinality(mine) <= Cardinality(theirs)
<1> DEFINE f == [k \in mine |-> from[k]]
<1>1. f \in [mine -> theirs] /\ \A k, l \in mine : f[k] = f[l] => k = l
  OBVIOUS
<1> HIDE DEF f
<1>2. f \in Injection(mine, theirs)
  BY <1>1 DEF Injection, IsInjective
<1> QED
  BY <1>2, FS_Injection

LEMMA ThinsCount ==
  ASSUME NEW s \in Seq(ZnRows), NEW t \in Seq(ZnRows), Thins(t, s)
  PROVE  /\ Cardinality(ActiveRows(t)) <= Cardinality(ActiveRows(s))
         /\ Primaries(t) <= Primaries(s) /\ Secondaries(t) <= Secondaries(s)
<1>1. PICK from \in [DOMAIN t -> DOMAIN s] :
          /\ \A k \in DOMAIN t : t[k] # Gone => t[k] = s[from[k]]
          /\ \A k, l \in DOMAIN t : from[k] = from[l] => k = l
  BY DEF Thins
<1>2. \A k \in ActiveRows(t) : from[k] \in ActiveRows(s)
  BY <1>1 DEF ActiveRows
<1>3. \A k \in PrimaryRows(t) : from[k] \in PrimaryRows(s)
  BY <1>1 DEF PrimaryRows, IsPrimary
<1>4. \A k \in SecondaryRows(t) : from[k] \in SecondaryRows(s)
  BY <1>1 DEF SecondaryRows, IsSecondary
<1>5. /\ ActiveRows(t) \in SUBSET DOMAIN t /\ PrimaryRows(t) \in SUBSET DOMAIN t
      /\ SecondaryRows(t) \in SUBSET DOMAIN t
  BY DEF ActiveRows, PrimaryRows, SecondaryRows
<1>6. IsFiniteSet(ActiveRows(s)) /\ IsFiniteSet(PrimaryRows(s)) /\ IsFiniteSet(SecondaryRows(s))
  BY RowCounts
<1>7. Cardinality(ActiveRows(t)) <= Cardinality(ActiveRows(s))
  BY <1>1, <1>2, <1>5, <1>6, FewerRows
<1>8. Cardinality(PrimaryRows(t)) <= Cardinality(PrimaryRows(s))
  BY <1>1, <1>3, <1>5, <1>6, FewerRows
<1>9. Cardinality(SecondaryRows(t)) <= Cardinality(SecondaryRows(s))
  BY <1>1, <1>4, <1>5, <1>6, FewerRows
<1> QED
  BY <1>7, <1>8, <1>9 DEF Primaries, Secondaries

\* The row appended is one more.
LEMMA AppendCounts ==
  ASSUME NEW s \in Seq(ZnRows), NEW row \in Rows
  PROVE  LET t == Append(s, row)
         IN  /\ t \in Seq(ZnRows) /\ DOMAIN t = 1..Len(s) + 1
             /\ \A i \in DOMAIN s : t[i] = s[i]
             /\ t[Len(s) + 1] = row
             /\ ActiveRows(t) = ActiveRows(s) \cup {Len(s) + 1}
             /\ Cardinality(ActiveRows(t)) = Cardinality(ActiveRows(s)) + 1
             /\ Primaries(t) = IF row.primary THEN Primaries(s) + 1 ELSE Primaries(s)
             /\ Secondaries(t) = IF row.primary THEN Secondaries(s) ELSE Secondaries(s) + 1
<1> DEFINE t == Append(s, row)
           n == Len(s) + 1
<1>1. /\ t \in Seq(ZnRows) /\ DOMAIN t = 1..n /\ DOMAIN s = 1..Len(s) /\ Len(s) \in Nat
      /\ \A i \in DOMAIN s : t[i] = s[i]
      /\ t[n] = row
  BY DEF ZnRows
<1>2. DOMAIN t = DOMAIN s \cup {n} /\ n \notin DOMAIN s
  BY <1>1
<1>3. row # Gone
  BY ZnNullsOK
<1> HIDE DEF t, n
<1>4. ActiveRows(t) = ActiveRows(s) \cup {n} /\ n \notin ActiveRows(s)
  BY <1>1, <1>2, <1>3 DEF ActiveRows
<1>5. /\ n \notin PrimaryRows(s)
      /\ PrimaryRows(t) = IF row.primary THEN PrimaryRows(s) \cup {n} ELSE PrimaryRows(s)
  BY <1>1, <1>2, <1>3 DEF PrimaryRows, IsPrimary
<1>6. /\ n \notin SecondaryRows(s)
      /\ SecondaryRows(t) = IF row.primary THEN SecondaryRows(s) ELSE SecondaryRows(s) \cup {n}
  BY <1>1, <1>2, <1>3 DEF SecondaryRows, IsSecondary
<1>7. IsFiniteSet(ActiveRows(s)) /\ IsFiniteSet(PrimaryRows(s)) /\ IsFiniteSet(SecondaryRows(s))
  BY RowCounts
<1>8. Cardinality(ActiveRows(t)) = Cardinality(ActiveRows(s)) + 1
  BY <1>4, <1>7, FS_AddElement
<1>9. Primaries(t) = IF row.primary THEN Primaries(s) + 1 ELSE Primaries(s)
  BY <1>5, <1>7, FS_AddElement DEF Primaries
<1>10. Secondaries(t) = IF row.primary THEN Secondaries(s) ELSE Secondaries(s) + 1
  BY <1>6, <1>7, FS_AddElement DEF Secondaries
<1> QED
  BY <1>1, <1>4, <1>8, <1>9, <1>10 DEF t, n

------------------------------------------------------------------------------
(* Zones: eviction takes the newest *)

\* A place with k of the places up to it is the k-th.
LEMMA NthIs ==
  ASSUME NEW places \in SUBSET Nat, IsFiniteSet(places), NEW i \in places
  PROVE  Nth(places, Rank(places, i)) = i
BY NthPlace

LEMMA OldestPart ==
  ASSUME NEW all \in SUBSET Nat, IsFiniteSet(all), NEW limit \in Nat
  PROVE  LET old == {i \in all : Rank(all, i) <= limit}
             keeps == IF Cardinality(all) < limit THEN Cardinality(all) ELSE limit
         IN  /\ Cardinality(old) = keeps
             /\ \A k \in 1..keeps : Nth(old, k) = Nth(all, k)
<1> DEFINE old == {i \in all : Rank(all, i) <= limit}
           n == Cardinality(all)
           keeps == IF n < limit THEN n ELSE limit
           picks == {k \in 1..n : Nth(all, k) \in old}
<1>1. n \in Nat /\ keeps \in Nat /\ keeps <= n
  BY RankOrder
<1>2. old \in SUBSET all /\ old \in SUBSET Nat
  OBVIOUS
<1>3. IsFiniteSet(old)
  BY <1>2, FS_Subset
<1>4. \A k \in 1..n : Nth(all, k) \in all /\ Rank(all, Nth(all, k)) = k
  BY NthPlace
<1>5. picks = 1..keeps
  BY <1>1, <1>4
<1>6. Cardinality(picks) = Cardinality(old)
  BY <1>2, PickedCount
<1>7. Cardinality(old) = keeps
  <2> HIDE DEF keeps, picks, old
  <2>1. Cardinality(1..keeps) = keeps
    BY <1>1, FS_Interval
  <2> QED
    BY <1>5, <1>6, <2>1
<1>8. ASSUME NEW k \in 1..keeps PROVE Nth(old, k) = Nth(all, k)
  <2> DEFINE i == Nth(all, k)
  <2>1. k \in 1..n /\ k \in Nat /\ k <= limit
    BY <1>1
  <2>2. i \in all /\ Rank(all, i) = k /\ i \in old
    BY <1>4, <2>1
  <2> HIDE DEF i
  <2>3. {j \in old : j <= i} = {j \in all : j <= i}
    <3>1. ASSUME NEW j \in all, j <= i PROVE j \in old
      <4>1. j \in Nat /\ i \in Nat /\ (j < i => Rank(all, j) < Rank(all, i))
        BY <2>2, RankOrder
      <4>2. Rank(all, j) \in Nat /\ Rank(all, i) \in Nat
        BY <1>1, <2>2, RankOrder
      <4>3. CASE j < i
        BY <2>1, <2>2, <4>1, <4>2, <4>3
      <4>4. CASE j = i
        BY <2>2, <4>4
      <4> QED
        BY <3>1, <4>1, <4>3, <4>4
    <3> QED
      BY <1>2, <3>1
  <2>4. Rank(old, i) = k
    BY <2>2, <2>3 DEF Rank
  <2> HIDE DEF old
  <2> QED
    BY <1>2, <1>3, <2>2, <2>4, NthIs DEF i
<1> QED
  BY <1>7, <1>8

\* Rows that are gone may be left out of a sequence or stay: what is active is the same.
LEMMA ActiveOfPicked ==
  ASSUME NEW u \in Seq(ZnRows), NEW places \in SUBSET DOMAIN u, ActiveRows(u) \subseteq places
  PROVE  Active(Picked(u, places)) = Active(u)
<1> DEFINE v == Picked(u, places)
           act == ActiveRows(u)
           n == Cardinality(places)
           at == ActiveRows(v)
<1>1. /\ IsFiniteSet(places) /\ n \in Nat /\ v \in Seq(ZnRows) /\ DOMAIN v = 1..n
      /\ \A k \in 1..n : Nth(places, k) \in places /\ v[k] = u[Nth(places, k)]
  BY PickedRows
<1>2. places \in SUBSET Nat /\ act \in SUBSET Nat /\ act \in SUBSET places /\ IsFiniteSet(act)
  <2>1. DOMAIN u \in SUBSET Nat
    OBVIOUS
  <2> QED
    BY <2>1, RowCounts
<1> HIDE DEF v, n
<1>3. at = {k \in 1..n : Nth(places, k) \in act}
  <2>1. \A k \in 1..n : v[k] # Gone <=> Nth(places, k) \in act
    BY <1>1 DEF ActiveRows
  <2> QED
    BY <1>1, <2>1 DEF ActiveRows
<1>4. IsFiniteSet(at) /\ Cardinality(at) = Cardinality(act) /\ at \in SUBSET 1..n /\ at \in SUBSET Nat
  <2>1. IsFiniteSet(at) /\ Cardinality(at) = Cardinality(act)
    BY <1>1, <1>2, <1>3, PickedCount DEF n
  <2>2. at \in SUBSET 1..n /\ at \in SUBSET Nat
    BY <1>1, <1>3
  <2> QED
    BY <2>1, <2>2
<1> DEFINE m == Cardinality(act)
<1>5. m \in Nat
  BY <1>2, FS_CardinalityType
<1> HIDE DEF at, act
<1>6. ASSUME NEW k \in 1..m PROVE v[Nth(at, k)] = u[Nth(act, k)]
  <2> DEFINE x == Nth(at, k)
             i == Nth(places, x)
             upTo == {j \in act : j <= i}
  <2>1. x \in at /\ Rank(at, x) = k
    BY <1>4, <1>6, NthPlace
  <2>2. x \in 1..n /\ i \in act /\ v[x] = u[i]
    BY <1>1, <1>3, <1>4, <2>1
  <2> HIDE DEF x
  <2>3. {y \in at : y <= x} = {y \in 1..n : Nth(places, y) \in upTo}
    <3>1. ASSUME NEW y \in 1..n PROVE y <= x <=> Nth(places, y) <= Nth(places, x)
      <4>1. /\ y < x => Nth(places, y) < Nth(places, x)
            /\ x < y => Nth(places, x) < Nth(places, y)
        BY <1>1, <1>2, <2>2, <3>1, NthPlace DEF n
      <4>2. x \in Nat /\ y \in Nat /\ Nth(places, x) \in Nat /\ Nth(places, y) \in Nat
        BY <1>1, <1>2, <2>2, <3>1
      <4> QED
        BY <4>1, <4>2
    <3> QED
      BY <1>3, <3>1
  <2>4. upTo \in SUBSET places
    BY <1>2
  <2>5. Cardinality({y \in 1..n : Nth(places, y) \in upTo}) = Cardinality(upTo)
    <3> HIDE DEF upTo
    <3> QED
      BY <1>1, <1>2, <2>4, PickedCount DEF n
  <2>6. Rank(act, i) = k
    BY <2>1, <2>3, <2>5 DEF Rank
  <2>7. i = Nth(act, k)
    <3> HIDE DEF i
    <3> QED
      BY <1>2, <2>2, <2>6, NthIs
  <2> QED
    BY <2>2, <2>7 DEF x
<1>7. Active(v) = [k \in 1..m |-> v[Nth(at, k)]]
  BY <1>4 DEF Active, Picked, at
<1>8. Active(u) = [k \in 1..m |-> u[Nth(act, k)]]
  BY DEF Active, Picked, act
<1> QED
  BY <1>6, <1>7, <1>8 DEF v

\* What eviction leaves of rows that are all secondary is the oldest part, as much as
\* the limit allows.
LEMMA EvictedIsOldest ==
  ASSUME NEW s \in Seq(ZnRows), PrimaryRows(s) = {}, NEW limit \in Nat
  PROVE  LET had == Active(s)
             left == SoftDelete(s, Overflow(s, limit))
             keeps == IF Len(had) < limit THEN Len(had) ELSE limit
         IN  Len(had) \in Nat /\ Active(left) = SubSeq(had, 1, keeps)
<1> DEFINE act == ActiveRows(s)
           n == Cardinality(act)
           keeps == IF n < limit THEN n ELSE limit
           u == Struck(s, Overflow(s, limit))
           old == {i \in act : Rank(act, i) <= limit}
           places == {i \in DOMAIN u : i <= BackfillDepth \/ u[i] # Gone}
<1>1. /\ act \in SUBSET Nat /\ act \in SUBSET DOMAIN s /\ IsFiniteSet(act) /\ n \in Nat
      /\ SecondaryRows(s) = act
  BY RowCounts
<1>2. u \in Seq(ZnRows) /\ ActiveRows(u) = old
  <2>1. u \in Seq(ZnRows) /\ ActiveRows(u) = act \ Overflow(s, limit)
    BY StruckRows
  <2>2. \A i \in act : Rank(act, i) \in 1..n
    BY <1>1, RankOrder
  <2>3. \A i \in act : i \notin Overflow(s, limit) <=> Rank(act, i) <= limit
    BY <1>1, <2>2 DEF Overflow
  <2> QED
    BY <2>1, <2>3
<1>3. SoftDelete(s, Overflow(s, limit)) = Picked(u, places)
  BY DEF SoftDelete, Forget, Struck
<1>4. Active(Picked(u, places)) = Active(u)
  <2>1. places \in SUBSET DOMAIN u /\ ActiveRows(u) \subseteq places
    BY DEF ActiveRows
  <2> HIDE DEF u, places
  <2> QED
    BY <1>2, <2>1, ActiveOfPicked
<1>5. Cardinality(old) = keeps /\ \A k \in 1..keeps : Nth(old, k) = Nth(act, k)
  <2> HIDE DEF act
  <2> QED
    BY <1>1, OldestPart
<1>6. DOMAIN Active(s) = 1..n /\ \A k \in 1..n : Active(s)[k] = s[Nth(act, k)]
  BY DEF Active, Picked
<1>7. Active(s) \in Seq(ZnRows) /\ Len(Active(s)) = n
  <2>1. Active(s) \in Seq(ZnRows) /\ DOMAIN Active(s) = 1..n
    BY <1>1, PickedRows DEF Active
  <2> HIDE DEF n
  <2> QED
    BY <1>1, <2>1
<1>8. Active(u) = [k \in 1..keeps |-> s[Nth(act, k)]]
  <2>1. \A k \in 1..keeps : Nth(act, k) \in old
    <3>1. old \in SUBSET Nat /\ IsFiniteSet(old)
      BY <1>1, FS_Subset
    <3> HIDE DEF old, act, keeps
    <3> QED
      BY <1>5, <3>1, NthPlace
  <2>2. \A i \in old : u[i] = s[i]
    <3>1. \A i \in old : i \in DOMAIN s /\ i \in ActiveRows(u)
      BY <1>1, <1>2
    <3> QED
      BY <3>1 DEF ActiveRows, Struck
  <2>3. Active(u) = [k \in 1..keeps |-> u[Nth(old, k)]]
    BY <1>2, <1>5 DEF Active, Picked
  <2> HIDE DEF u, old, keeps, act
  <2> QED
    BY <1>5, <2>1, <2>2, <2>3
<1>9. SubSeq(Active(s), 1, keeps) = [k \in 1..keeps |-> s[Nth(act, k)]]
  <2>1. keeps \in 0..n
    BY <1>1
  <2> HIDE DEF keeps, n, act
  <2>2. SubSeq(Active(s), 1, keeps) = [k \in 1..keeps |-> Active(s)[k]]
    BY <1>1, <1>7, <2>1
  <2> QED
    BY <1>1, <1>6, <2>1, <2>2
<1> HIDE DEF u, places, act, n
<1> QED
  BY <1>1, <1>3, <1>4, <1>7, <1>8, <1>9

LEMMA ActiveLength ==
  ASSUME NEW s \in Seq(ZnRows)
  PROVE  Active(s) \in Seq(ZnRows) /\ Len(Active(s)) = Cardinality(ActiveRows(s))
<1>1. ActiveRows(s) \in SUBSET DOMAIN s /\ Cardinality(ActiveRows(s)) \in Nat
  BY RowCounts
<1>2. Active(s) \in Seq(ZnRows) /\ DOMAIN Active(s) = 1..Cardinality(ActiveRows(s))
  BY <1>1, PickedRows DEF Active
<1> QED
  BY <1>1, <1>2

LEMMA EvictedCount ==
  ASSUME NEW s \in Seq(ZnRows), PrimaryRows(s) = {}, NEW limit \in Nat
  PROVE  Cardinality(ActiveRows(SoftDelete(s, Overflow(s, limit)))) <= limit
<1> DEFINE had == Active(s)
           left == SoftDelete(s, Overflow(s, limit))
           keeps == IF Len(had) < limit THEN Len(had) ELSE limit
<1>1. had \in Seq(ZnRows) /\ Len(had) \in Nat /\ Active(left) = SubSeq(had, 1, keeps)
  BY EvictedIsOldest, ActiveLength
<1>2. left \in Seq(ZnRows)
  BY SoftDeleteThins
<1>3. Len(Active(left)) = Cardinality(ActiveRows(left))
  BY <1>2, ActiveLength
<1>4. keeps \in 0..Len(had) /\ keeps <= limit
  BY <1>1
<1> HIDE DEF had, left, keeps
<1>5. Len(SubSeq(had, 1, keeps)) = keeps
  BY <1>1, <1>4
<1> QED
  BY <1>1, <1>3, <1>4, <1>5 DEF left

------------------------------------------------------------------------------
(* Zones: the inductive invariant *)

Whole(m) == m \in Registered /\ m \notin regraded
Steady(m) == Whole(m) /\ m \notin backfilled

\* Administrators and Individuals are the roots of their accounts, and who is the root
\* of others is an administrator, as long as nobody regrades them.
RootsFit ==
    \A m \in Registered :
        /\ Whole(m) /\ (Admin(m) \/ account[m].type = "exclusive") => Root(m) = m
        /\ Root(m) # m /\ Root(m) \notin regraded => Admin(Root(m))

\* The quota that an account a has by itself.
QuotaKept(a, rows) ==
    CASE a.type = "exclusive" -> Primaries(rows) <= 1 /\ Secondaries(rows) <= MaxSolo
      [] a.type # "exclusive" /\ a.role = "administrator" ->
             Primaries(rows) <= MaxPrimary /\ Cardinality(ActiveRows(rows)) <= MaxAdmin
      [] OTHER -> Primaries(rows) = 0 /\ Cardinality(ActiveRows(rows)) <= MaxAdmin

\* The quota of a member, which the primaries of its administrator leave.
ShareKept(m) ==
    Steady(m) /\ Root(m) # m /\ Steady(Root(m)) =>
        Cardinality(ActiveRows(zones[m])) <= MemberLimit(Primaries(zones[Root(m)]))

\* Names differ among the zones of one owner, always, and in an account whose root is
\* as it registered: a regraded root may become the root of others who came before it.
NamesApart(zs) ==
    \A x, y \in Registered : x = y \/ (Root(x) = Root(y) /\ Root(x) \notin regraded) =>
        \A i \in ActiveRows(zs[x]), j \in ActiveRows(zs[y]) :
            zs[x][i].name = zs[y][j].name => x = y /\ i = j

ZnInv ==
    /\ ZnTypeOK
    /\ RootsFit
    /\ \A m \in Registered : Steady(m) => QuotaKept(account[m], zones[m])
    /\ \A m \in Registered : ShareKept(m)
    /\ NamesApart(zones)

LEMMA Limits ==
  /\ MaxAdmin \in Nat /\ MaxPrimary \in Nat /\ MaxPrimary <= MaxAdmin /\ MaxSolo = 2
  /\ \A p \in Nat : MemberLimit(p) \in Nat /\ MemberLimit(p) <= MaxAdmin
  /\ \A p, q \in Nat : p <= q => MemberLimit(q) <= MemberLimit(p)
  /\ MemberLimit(0) = MaxAdmin
BY LimitsAssumption DEF MemberLimit, MaxSolo

LEMMA NoRows ==
  /\ <<>> \in Seq(ZnRows) /\ ActiveRows(<<>>) = {} /\ PrimaryRows(<<>>) = {}
  /\ SecondaryRows(<<>>) = {}
  /\ Cardinality(ActiveRows(<<>>)) = 0 /\ Primaries(<<>>) = 0 /\ Secondaries(<<>>) = 0
  /\ \A a : QuotaKept(a, <<>>)
<1>1. /\ <<>> \in Seq(ZnRows) /\ ActiveRows(<<>>) = {} /\ PrimaryRows(<<>>) = {}
      /\ SecondaryRows(<<>>) = {}
  BY DEF ActiveRows, PrimaryRows, SecondaryRows
<1>2. Cardinality(ActiveRows(<<>>)) = 0 /\ Primaries(<<>>) = 0 /\ Secondaries(<<>>) = 0
  BY <1>1, FS_EmptySet DEF Primaries, Secondaries
<1> QED
  BY <1>1, <1>2, Limits DEF QuotaKept

\* An owner's account and root, and the owners around it.
LEMMA OwnerFacts ==
  ASSUME ZnTypeOK
  PROVE  /\ NoAccount \notin Owners /\ NoAccount \notin Accounts
         /\ account \in [Owners -> Accounts \cup {NoAccount}]
         /\ Registered \subseteq Owners
         /\ \A o \in Registered : account[o] \in Accounts /\ Root(o) \in Registered
         /\ zones \in [Owners -> Seq(ZnRows)]
         /\ \A o \in Owners : o \notin Registered => zones[o] = <<>>
BY ZnNullsOK DEF ZnTypeOK, Registered, ZnRows

LEMMA ZnInitInv == ZnInit => ZnInv
<1> SUFFICES ASSUME ZnInit PROVE ZnInv
  OBVIOUS
<1>1. Registered = {}
  BY DEF ZnInit, Registered
<1>2. zones \in [Owners -> Seq(Rows \cup {Gone})]
  BY DEF ZnInit
<1>3. ZnTypeOK
  BY <1>1, <1>2 DEF ZnInit, ZnTypeOK
<1> QED
  BY <1>1, <1>3 DEF ZnInv, RootsFit, NamesApart

------------------------------------------------------------------------------
(* Zones: the steps that change accounts *)

\* Owners stay who they are and keep their roots; who is not regraded keeps the grade.
LEMMA AccountsTurn ==
  ASSUME ZnInv, account' \in [Owners -> Accounts \cup {NoAccount}],
         Registered' = Registered, \A m \in Registered : Root(m)' = Root(m),
         regraded \subseteq regraded', regraded' \subseteq Registered,
         UNCHANGED <<zones, backfilled>>,
         \A m \in Registered \ regraded' :
             /\ account'[m].role = account[m].role
             /\ account'[m].type = "exclusive" <=> account[m].type = "exclusive"
             /\ RoleFits(account'[m].role, account'[m].type)
  PROVE  ZnInv'
<1>1. /\ ZnTypeOK /\ RootsFit /\ NamesApart(zones)
      /\ \A m \in Registered : Steady(m) => QuotaKept(account[m], zones[m])
      /\ \A m \in Registered : ShareKept(m)
  BY DEF ZnInv
<1>2. ZnTypeOK'
  BY <1>1 DEF ZnTypeOK
<1>3. ASSUME NEW m \in Registered
      PROVE  (Whole(m)' => Whole(m)) /\ (Steady(m)' => Steady(m))
  BY <1>3 DEF Whole, Steady
<1>4. \A m \in Registered : Root(m) \in Registered
  BY <1>1 DEF ZnTypeOK
<1>5. RootsFit'
  <2>1. ASSUME NEW m \in Registered, Whole(m)', Admin(m)' \/ account'[m].type = "exclusive"
        PROVE  Root(m)' = m
    <3>1. Whole(m) /\ (Admin(m) \/ account[m].type = "exclusive")
      BY <1>3, <2>1 DEF Whole, Admin
    <3> QED
      BY <1>1, <3>1 DEF RootsFit
  <2>2. ASSUME NEW m \in Registered, Root(m)' # m, Root(m)' \notin regraded'
        PROVE  Admin(Root(m))'
    <3> DEFINE r == Root(m)
    <3>1. r \in Registered \ regraded' /\ r \notin regraded /\ Root(m)' = r /\ r # m
      BY <1>4, <2>2
    <3>2. Admin(r)
      BY <1>1, <3>1 DEF RootsFit
    <3>3. account'[r].role = "administrator"
      BY <3>1, <3>2 DEF Admin
    <3> QED
      BY <3>1, <3>3 DEF Admin
  <2> QED
    BY <2>1, <2>2 DEF RootsFit
<1>6. ASSUME NEW m \in Registered, Steady(m)' PROVE QuotaKept(account'[m], zones'[m])
  <2>1. Steady(m) /\ m \in Registered \ regraded'
    BY <1>3, <1>6 DEF Steady, Whole
  <2>2. QuotaKept(account[m], zones[m])
    BY <1>1, <2>1
  <2> QED
    BY <2>1, <2>2 DEF QuotaKept
<1>7. ASSUME NEW m \in Registered PROVE ShareKept(m)'
  BY <1>1, <1>3, <1>4, <1>7 DEF ShareKept
<1>8. NamesApart(zones)'
  BY <1>1 DEF NamesApart
<1> QED
  BY <1>2, <1>5, <1>6, <1>7, <1>8 DEF ZnInv

LEMMA RegradeKeeps ==
  ASSUME ZnInv, NEW o \in Owners, NEW role \in Roles, NEW type \in Types, NEW typed \in BOOLEAN,
         Regrade(o, role, type, typed)
  PROVE  ZnInv'
<1> DEFINE root == IF role = "administrator" /\ role # account[o].role THEN Root(o) ELSE account[o].root
           cascade(m) == typed /\ role = "administrator" /\ m # o /\ account[m].root = Root(o)
           changed == {m \in Owners : account'[m] # account[m]}
<1>1. /\ o \in Registered
      /\ account' = [m \in Owners |->
               CASE m = o -> [role |-> role, type |-> type, root |-> root]
                 [] m \in Registered \ {o} /\ cascade(m) ->
                        [account[m] EXCEPT !.type = MemberType(type)]
                 [] OTHER -> account[m]]
      /\ regraded' = regraded \cup changed
      /\ UNCHANGED <<zones, backfilled>>
  BY DEF Regrade
<1>2. ZnTypeOK /\ NoAccount \notin Accounts
  BY OwnerFacts DEF ZnInv
<1>3. /\ account \in [Owners -> Accounts \cup {NoAccount}] /\ Registered \subseteq Owners
      /\ NoAccount \notin Owners
      /\ \A m \in Registered : account[m] \in Accounts /\ Root(m) \in Registered
  BY <1>2, OwnerFacts
<1>4. MemberType(type) \in Types
  BY DEF MemberType, Types
<1>5. root \in Owners \cup {NoAccount} /\ (IF root = NoAccount THEN o ELSE root) = Root(o)
  BY <1>1, <1>3 DEF Root, Accounts
<1> HIDE DEF root
<1>6. account'[o] \in Accounts /\ account'[o].root = root
  BY <1>1, <1>5 DEF Accounts
<1>7. ASSUME NEW m \in Owners \ {o}
      PROVE  \/ account'[m] = account[m]
             \/ /\ m \in Registered /\ account'[m] \in Accounts
                /\ account'[m].root = account[m].root /\ account'[m].role = account[m].role
  <2>1. CASE m \in Registered /\ cascade(m)
    <3>1. account'[m] = [account[m] EXCEPT !.type = MemberType(type)]
      BY <1>1, <2>1
    <3> QED
      BY <1>3, <1>4, <2>1, <3>1 DEF Accounts
  <2>2. CASE ~(m \in Registered /\ cascade(m))
    BY <1>1, <2>2
  <2> QED
    BY <2>1, <2>2
<1>8. account' \in [Owners -> Accounts \cup {NoAccount}]
  <2>1. \A m \in Owners : account'[m] \in Accounts \cup {NoAccount}
    BY <1>3, <1>6, <1>7
  <2> QED
    BY <1>1, <2>1
<1>9. Registered' = Registered
  BY <1>1, <1>2, <1>3, <1>6, <1>7 DEF Registered
<1>10. ASSUME NEW m \in Registered PROVE Root(m)' = Root(m)
  <2>1. CASE m = o
    BY <1>5, <1>6, <2>1 DEF Root
  <2>2. CASE m # o
    BY <1>3, <1>7, <2>2 DEF Root
  <2> QED
    BY <2>1, <2>2
<1>11. regraded \subseteq regraded' /\ regraded' \subseteq Registered
  <2>1. \A m \in Owners : account'[m] # account[m] => m \in Registered
    BY <1>1, <1>7
  <2> QED
    BY <1>1, <1>2, <2>1 DEF ZnTypeOK
<1>12. ASSUME NEW m \in Registered \ regraded'
       PROVE  /\ account'[m].role = account[m].role
              /\ account'[m].type = "exclusive" <=> account[m].type = "exclusive"
              /\ RoleFits(account'[m].role, account'[m].type)
  <2>1. account'[m] = account[m] /\ m \in Registered \ regraded
    BY <1>1, <1>3
  <2> QED
    BY <1>2, <2>1 DEF ZnTypeOK
<1> QED
  BY <1>1, <1>8, <1>9, <1>10, <1>11, <1>12, AccountsTurn

LEMMA RealignKeeps ==
  ASSUME ZnInv, Realign
  PROVE  ZnInv'
<1>1. /\ account' = [m \in Owners |-> IF m \in Registered /\ Realigned(m)
                                      THEN [account[m] EXCEPT !.type = "private_plus"]
                                      ELSE account[m]]
      /\ UNCHANGED <<zones, regraded, backfilled>>
  BY DEF Realign
<1>2. ZnTypeOK /\ RootsFit
  BY DEF ZnInv
<1>3. /\ account \in [Owners -> Accounts \cup {NoAccount}] /\ Registered \subseteq Owners
      /\ NoAccount \notin Owners /\ NoAccount \notin Accounts
      /\ \A m \in Registered : account[m] \in Accounts /\ Root(m) \in Registered
  BY <1>2, OwnerFacts
<1>4. ASSUME NEW m \in Registered
      PROVE  /\ account'[m] \in Accounts
             /\ account'[m].root = account[m].root /\ account'[m].role = account[m].role
             /\ account'[m] = account[m] \/ (Realigned(m) /\ account'[m].type = "private_plus")
  <2>1. CASE Realigned(m)
    <3>1. account'[m] = [account[m] EXCEPT !.type = "private_plus"]
      BY <1>1, <1>3, <2>1
    <3> QED
      BY <1>3, <2>1, <3>1 DEF Accounts, Types
  <2>2. CASE ~Realigned(m)
    BY <1>1, <1>3, <2>2
  <2> QED
    BY <2>1, <2>2
<1>5. \A m \in Owners : m \notin Registered => account'[m] = account[m]
  BY <1>1
<1>6. account' \in [Owners -> Accounts \cup {NoAccount}]
  <2>1. \A m \in Owners : account'[m] \in Accounts \cup {NoAccount}
    BY <1>3, <1>4, <1>5
  <2> QED
    BY <1>1, <2>1
<1>7. Registered' = Registered
  BY <1>3, <1>4, <1>5 DEF Registered
<1>8. ASSUME NEW m \in Registered PROVE Root(m)' = Root(m)
  BY <1>4, <1>8 DEF Root
<1>9. ASSUME NEW m \in Registered \ regraded'
      PROVE  /\ account'[m].role = account[m].role
             /\ account'[m].type = "exclusive" <=> account[m].type = "exclusive"
             /\ RoleFits(account'[m].role, account'[m].type)
  <2>1. m \in Registered \ regraded /\ RoleFits(account[m].role, account[m].type) /\ Whole(m)
    BY <1>1, <1>2 DEF ZnTypeOK, Whole
  <2>2. CASE account'[m] = account[m]
    BY <2>1, <2>2
  <2>3. CASE Realigned(m) /\ account'[m].type = "private_plus"
    <3>1. PICK a \in Registered \ {m} : Root(a) = account[m].root
      BY <2>3 DEF Realigned
    <3>2. Root(a) = Root(m) /\ account[m].root \in Owners
      BY <1>3, <3>1 DEF Root
    <3>3. account[m].type # "exclusive"
      <4>1. SUFFICES ASSUME account[m].type = "exclusive" PROVE FALSE
        OBVIOUS
      <4>2. Root(m) = m
        BY <1>2, <2>1, <4>1 DEF RootsFit
      <4>3. Root(a) = m /\ a # m
        BY <3>1, <3>2, <4>2
      <4>4. Admin(m)
        BY <1>2, <2>1, <3>1, <4>3 DEF RootsFit
      <4> QED
        BY <2>1, <4>1, <4>4 DEF RoleFits, Admin
    <3> QED
      BY <1>4, <2>1, <2>3, <3>3 DEF RoleFits
  <2> QED
    BY <1>4, <2>2, <2>3
<1>10. regraded' = regraded /\ regraded \subseteq Registered
  BY <1>1, <1>2 DEF ZnTypeOK
<1> QED
  BY <1>1, <1>6, <1>7, <1>8, <1>9, <1>10, AccountsTurn

\* Somebody registers, with rows that keep the quota: nobody's root so far, and under
\* an administrator or alone.
LEMMA NewOwner ==
  ASSUME ZnInv, NEW o \in Owners, o \notin Registered, NEW row \in Accounts, NEW s \in Seq(ZnRows),
         account' = [account EXCEPT ![o] = row], zones' = [zones EXCEPT ![o] = s],
         UNCHANGED <<regraded, backfilled>>,
         RoleFits(row.role, row.type), QuotaKept(row, s),
         \A i, j \in ActiveRows(s) : i = j,
         \/ row.root = o
         \/ /\ row.root \in Registered /\ Admin(row.root) /\ ActiveRows(s) = {}
            /\ row.role = "user" /\ row.type # "exclusive"
  PROVE  ZnInv'
<1>1. /\ ZnTypeOK /\ RootsFit /\ NamesApart(zones)
      /\ \A m \in Registered : Steady(m) => QuotaKept(account[m], zones[m])
      /\ \A m \in Registered : ShareKept(m)
  BY DEF ZnInv
<1>2. /\ account \in [Owners -> Accounts \cup {NoAccount}] /\ Registered \subseteq Owners
      /\ NoAccount \notin Owners /\ NoAccount \notin Accounts
      /\ \A m \in Registered : account[m] \in Accounts /\ Root(m) \in Registered
      /\ zones \in [Owners -> Seq(ZnRows)]
  BY <1>1, OwnerFacts
<1>3. /\ account'[o] = row /\ zones'[o] = s /\ o \notin regraded /\ o \notin backfilled
      /\ \A m \in Owners \ {o} : account'[m] = account[m] /\ zones'[m] = zones[m]
  BY <1>1, <1>2 DEF ZnTypeOK
<1>4. Registered' = Registered \cup {o}
  BY <1>2, <1>3 DEF Registered
<1>5. ASSUME NEW m \in Registered
      PROVE  /\ m \in Owners \ {o} /\ Root(m)' = Root(m) /\ Root(m) \in Registered /\ Root(m) # o
             /\ Admin(m)' = Admin(m)
  BY <1>2, <1>3 DEF Root, Admin
<1>6. Root(o)' = row.root /\ row.root \in Registered'
  BY <1>2, <1>3, <1>4 DEF Root
<1>7. ZnTypeOK'
  <2>1. account' \in [Owners -> Accounts \cup {NoAccount}]
    BY <1>2
  <2>2. zones' \in [Owners -> Seq(Rows \cup {Gone})]
    BY <1>2 DEF ZnRows
  <2>3. \A m \in Registered' : Root(m)' \in Registered'
    BY <1>4, <1>5, <1>6
  <2>4. \A m \in Registered' \ regraded' : RoleFits(account'[m].role, account'[m].type)
    BY <1>1, <1>3, <1>4, <1>5 DEF ZnTypeOK
  <2>5. \A m \in Owners \ Registered' : zones'[m] = <<>>
    BY <1>1, <1>3, <1>4 DEF ZnTypeOK
  <2>6. regraded' \subseteq Registered' /\ backfilled' \subseteq Registered'
    BY <1>1, <1>4 DEF ZnTypeOK
  <2> QED
    BY <2>1, <2>2, <2>3, <2>4, <2>5, <2>6 DEF ZnTypeOK
<1>8. RootsFit'
  <2>1. ASSUME NEW m \in Registered', Whole(m)', Admin(m)' \/ account'[m].type = "exclusive"
        PROVE  Root(m)' = m
    <3>1. CASE m = o
      BY <1>3, <1>6, <2>1, <3>1 DEF Admin
    <3>2. CASE m # o
      <4>1. m \in Registered /\ Whole(m) /\ (Admin(m) \/ account[m].type = "exclusive")
        BY <1>3, <1>4, <1>5, <2>1, <3>2 DEF Whole
      <4> QED
        BY <1>1, <1>5, <4>1 DEF RootsFit
    <3> QED
      BY <3>1, <3>2
  <2>2. ASSUME NEW m \in Registered', Root(m)' # m, Root(m)' \notin regraded'
        PROVE  Admin(Root(m))'
    <3>1. CASE m = o
      <4>1. Admin(row.root)'
        BY <1>5, <1>6, <2>2, <3>1
      <4> QED
        BY <1>6, <3>1, <4>1 DEF Admin
    <3>2. CASE m # o
      <4>1. m \in Registered /\ Root(m) # m /\ Root(m) \notin regraded
        BY <1>4, <1>5, <2>2, <3>2
      <4>2. Admin(Root(m))
        BY <1>1, <4>1 DEF RootsFit
      <4> QED
        BY <1>3, <1>5, <4>1, <4>2 DEF Admin
    <3> QED
      BY <3>1, <3>2
  <2> QED
    BY <2>1, <2>2 DEF RootsFit
<1>9. ASSUME NEW m \in Registered', Steady(m)' PROVE QuotaKept(account'[m], zones'[m])
  <2>1. CASE m = o
    BY <1>3, <2>1
  <2>2. CASE m # o
    BY <1>1, <1>3, <1>4, <1>5, <1>9, <2>2 DEF Steady, Whole
  <2> QED
    BY <2>1, <2>2
<1>10. ASSUME NEW m \in Registered' PROVE ShareKept(m)'
  <2>1. CASE m = o
    <3>1. SUFFICES ASSUME row.root # o, Steady(row.root)'
                   PROVE  Cardinality(ActiveRows(s)) <= MemberLimit(Primaries(zones'[row.root]))
      BY <1>3, <1>6, <2>1 DEF ShareKept
    <3>2. ActiveRows(s) = {} /\ row.root \in Registered
      BY <3>1
    <3>3. Primaries(zones'[row.root]) \in Nat
      BY <1>2, <1>3, <1>5, <3>2, RowCounts
    <3> QED
      BY <3>2, <3>3, Limits, FS_EmptySet
  <2>2. CASE m # o
    <3>1. m \in Registered
      BY <1>4, <2>2
    <3>2. /\ m \in Owners \ {o} /\ Root(m) \in Owners \ {o} /\ Root(m)' = Root(m)
          /\ Root(m) \in Registered
      BY <1>2, <1>5, <3>1
    <3>3. (Steady(m)' => Steady(m)) /\ (Steady(Root(m))' => Steady(Root(m)))
      BY <1>4, <3>1, <3>2 DEF Steady, Whole
    <3> QED
      BY <1>1, <1>3, <3>1, <3>2, <3>3 DEF ShareKept
  <2> QED
    BY <2>1, <2>2
<1>11. NamesApart(zones)'
  <2>1. SUFFICES ASSUME NEW x \in Registered', NEW y \in Registered',
                        x = y \/ (Root(x)' = Root(y)' /\ Root(x)' \notin regraded'),
                        NEW i \in ActiveRows(zones'[x]), NEW j \in ActiveRows(zones'[y]),
                        zones'[x][i].name = zones'[y][j].name
                 PROVE  x = y /\ i = j
    BY DEF NamesApart
  <2>2. CASE x # o /\ y # o
    <3>1. x \in Registered /\ y \in Registered
      BY <1>4, <2>2
    <3>2. /\ Root(x)' = Root(x) /\ Root(y)' = Root(y)
          /\ zones'[x] = zones[x] /\ zones'[y] = zones[y]
      BY <1>3, <1>5, <3>1
    <3> QED
      BY <1>1, <2>1, <3>1, <3>2 DEF NamesApart
  <2>3. CASE x = y /\ x = o
    BY <1>3, <2>1, <2>3
  <2>4. CASE x # y /\ (x = o \/ y = o)
    <3>1. row.root # o
      BY <1>4, <1>5, <1>6, <2>1, <2>4
    <3> QED
      BY <1>3, <2>1, <2>4, <3>1
  <2> QED
    BY <2>2, <2>3, <2>4
<1> QED
  BY <1>7, <1>8, <1>9, <1>10, <1>11 DEF ZnInv

LEMMA RegistrationKeeps ==
  ASSUME ZnInv, NEW o \in Owners,
         \/ \E type \in Types : RegisterAdministrator(o, type)
         \/ \E a \in Owners : Join(o, a)
         \/ \E name \in Names : RegisterSolo(o, name)
  PROVE  ZnInv'
<1>1. ZnTypeOK
  BY DEF ZnInv
<1>2. /\ zones \in [Owners -> Seq(ZnRows)] /\ NoAccount \notin Owners /\ Registered \subseteq Owners
      /\ \A m \in Owners : m \notin Registered => zones[m] = <<>>
      /\ \A m \in Registered : account[m] \in Accounts
  BY <1>1, OwnerFacts
<1>3. ASSUME o \notin Registered, UNCHANGED zones PROVE zones' = [zones EXCEPT ![o] = <<>>]
  BY <1>2, <1>3
<1>4. ASSUME NEW type \in Types, RegisterAdministrator(o, type) PROVE ZnInv'
  <2> DEFINE row == [role |-> "administrator", type |-> type, root |-> o]
  <2>1. row \in Accounts /\ row.root = o
    BY DEF Accounts, Roles
  <2>2. /\ o \notin Registered /\ RoleFits(row.role, row.type)
        /\ account' = [account EXCEPT ![o] = row] /\ UNCHANGED <<zones, regraded, backfilled>>
    BY <1>4 DEF RegisterAdministrator
  <2> HIDE DEF row
  <2> QED
    BY <1>3, <2>1, <2>2, NoRows, NewOwner
<1>5. ASSUME NEW a \in Owners, Join(o, a) PROVE ZnInv'
  <2> DEFINE row == [role |-> "user", type |-> MemberType(account[a].type), root |-> a]
  <2>1. /\ o \notin Registered /\ a \in Registered /\ Admin(a) /\ account[a].type = "private_plus"
        /\ account' = [account EXCEPT ![o] = row] /\ UNCHANGED <<zones, regraded, backfilled>>
    BY <1>5 DEF Join
  <2>2. /\ row \in Accounts /\ row.root = a /\ row.role = "user" /\ row.type = "private_plus"
        /\ RoleFits(row.role, row.type)
    BY <2>1 DEF Accounts, Roles, Types, MemberType, RoleFits
  <2> HIDE DEF row
  <2> QED
    BY <1>3, <2>1, <2>2, NoRows, NewOwner
<1>6. ASSUME NEW name \in Names, RegisterSolo(o, name) PROVE ZnInv'
  <2> DEFINE row == [role |-> "user", type |-> "exclusive", root |-> o]
             zone == [name |-> name, primary |-> TRUE]
             s == Append(<<>>, zone)
  <2>1. /\ o \notin Registered
        /\ account' = [account EXCEPT ![o] = row] /\ zones' = [zones EXCEPT ![o] = s]
        /\ UNCHANGED <<regraded, backfilled>>
    BY <1>6 DEF RegisterSolo
  <2>2. /\ row \in Accounts /\ row.root = o /\ row.type = "exclusive"
        /\ RoleFits(row.role, row.type)
    BY DEF Accounts, Roles, Types, RoleFits
  <2>3. zone \in Rows /\ zone.primary /\ Len(<<>>) = 0
    BY DEF Rows
  <2> HIDE DEF zone
  <2>4. /\ s \in Seq(ZnRows) /\ ActiveRows(s) = ActiveRows(<<>>) \cup {Len(<<>>) + 1}
        /\ Primaries(s) = Primaries(<<>>) + 1 /\ Secondaries(s) = Secondaries(<<>>)
    BY <2>3, NoRows, AppendCounts
  <2>5. ActiveRows(s) = {1} /\ Primaries(s) = 1 /\ Secondaries(s) = 0
    BY <2>3, <2>4, NoRows
  <2> HIDE DEF row, s
  <2>6. QuotaKept(row, s)
    BY <2>2, <2>5, Limits DEF QuotaKept
  <2> QED
    BY <2>1, <2>2, <2>4, <2>5, <2>6, NewOwner
<1> QED
  BY <1>4, <1>5, <1>6

LEMMA DeleteOwnerKeeps ==
  ASSUME ZnInv, NEW o \in Owners, DeleteOwner(o)
  PROVE  ZnInv'
<1>1. /\ ZnTypeOK /\ RootsFit /\ NamesApart(zones)
      /\ \A m \in Registered : Steady(m) => QuotaKept(account[m], zones[m])
      /\ \A m \in Registered : ShareKept(m)
  BY DEF ZnInv
<1>2. /\ account \in [Owners -> Accounts \cup {NoAccount}] /\ Registered \subseteq Owners
      /\ NoAccount \notin Owners /\ NoAccount \notin Accounts
      /\ \A m \in Registered : account[m] \in Accounts /\ Root(m) \in Registered
      /\ zones \in [Owners -> Seq(ZnRows)]
  BY <1>1, OwnerFacts
<1>3. /\ o \in Registered
      /\ account' = [m \in Owners |->
           CASE m = o -> NoAccount
             [] m \in Registered \ {o} /\ account[m].root = o -> [account[m] EXCEPT !.root = NoAccount]
             [] OTHER -> account[m]]
      /\ zones' = [zones EXCEPT ![o] = <<>>]
      /\ regraded' = regraded \ {o} /\ backfilled' = backfilled \ {o}
  BY DEF DeleteOwner
<1>4. ASSUME NEW m \in Registered \ {o}
      PROVE  /\ account'[m] \in Accounts /\ account'[m].role = account[m].role
             /\ account'[m].type = account[m].type
             /\ Root(m)' = IF Root(m) = o THEN m ELSE Root(m)
  <2>1. CASE account[m].root = o
    <3>1. account'[m] = [account[m] EXCEPT !.root = NoAccount]
      BY <1>2, <1>3, <2>1
    <3>2. Root(m) = o
      BY <1>2, <2>1 DEF Root
    <3> QED
      BY <1>2, <3>1, <3>2 DEF Accounts, Root
  <2>2. CASE account[m].root # o
    <3>1. account'[m] = account[m]
      BY <1>2, <1>3, <2>2
    <3>2. Root(m) # o
      BY <2>2 DEF Root
    <3> QED
      BY <1>2, <3>1, <3>2 DEF Root
  <2> QED
    BY <2>1, <2>2
<1>5. account'[o] = NoAccount /\ \A m \in Owners \ Registered : account'[m] = NoAccount
  BY <1>3 DEF Registered
<1>6. Registered' = Registered \ {o}
  BY <1>2, <1>4, <1>5 DEF Registered
<1>7. zones'[o] = <<>> /\ \A m \in Owners \ {o} : zones'[m] = zones[m]
  BY <1>2, <1>3
<1>8. ZnTypeOK'
  <2>1. account' \in [Owners -> Accounts \cup {NoAccount}]
    <3>1. \A m \in Owners : account'[m] \in Accounts \cup {NoAccount}
      BY <1>4, <1>5
    <3> QED
      BY <1>3, <3>1
  <2>2. zones' \in [Owners -> Seq(Rows \cup {Gone})]
    BY <1>2, <1>3 DEF ZnRows
  <2>3. \A m \in Registered' : Root(m)' \in Registered'
    BY <1>2, <1>4, <1>6
  <2>4. \A m \in Registered' \ regraded' : RoleFits(account'[m].role, account'[m].type)
    BY <1>1, <1>3, <1>4, <1>6 DEF ZnTypeOK
  <2>5. \A m \in Owners \ Registered' : zones'[m] = <<>>
    BY <1>1, <1>6, <1>7 DEF ZnTypeOK
  <2>6. regraded' \subseteq Registered' /\ backfilled' \subseteq Registered'
    BY <1>1, <1>3, <1>6 DEF ZnTypeOK
  <2> QED
    BY <2>1, <2>2, <2>3, <2>4, <2>5, <2>6 DEF ZnTypeOK
<1>9. \A m \in Registered' : (Whole(m)' => Whole(m)) /\ (Steady(m)' => Steady(m))
  BY <1>3, <1>6 DEF Whole, Steady
<1>10. \A m \in Registered' : Admin(m)' = Admin(m)
  BY <1>4, <1>6 DEF Admin
<1>11. RootsFit'
  <2>1. ASSUME NEW m \in Registered', Whole(m)', Admin(m)' \/ account'[m].type = "exclusive"
        PROVE  Root(m)' = m
    <3>1. m \in Registered \ {o} /\ Whole(m) /\ (Admin(m) \/ account[m].type = "exclusive")
      BY <1>4, <1>6, <1>9, <1>10, <2>1
    <3>2. Root(m) = m
      BY <1>1, <3>1 DEF RootsFit
    <3> QED
      BY <1>4, <3>1, <3>2
  <2>2. ASSUME NEW m \in Registered', Root(m)' # m, Root(m)' \notin regraded'
        PROVE  Admin(Root(m))'
    <3>1. m \in Registered \ {o} /\ Root(m)' = Root(m) /\ Root(m) # m /\ Root(m) # o
      BY <1>4, <1>6, <2>2
    <3>2. Root(m) \in Registered \ {o} /\ Root(m) \notin regraded
      BY <1>2, <1>3, <2>2, <3>1
    <3>3. Admin(Root(m))
      BY <1>1, <3>1, <3>2 DEF RootsFit
    <3>4. account'[Root(m)].role = "administrator"
      BY <1>4, <3>2, <3>3 DEF Admin
    <3> QED
      BY <3>1, <3>4 DEF Admin
  <2> QED
    BY <2>1, <2>2 DEF RootsFit
<1>12. ASSUME NEW m \in Registered', Steady(m)' PROVE QuotaKept(account'[m], zones'[m])
  <2>1. m \in Registered \ {o} /\ QuotaKept(account[m], zones[m]) /\ zones'[m] = zones[m]
    BY <1>1, <1>2, <1>6, <1>7, <1>9, <1>12
  <2> QED
    BY <1>4, <2>1 DEF QuotaKept
<1>13. ASSUME NEW m \in Registered' PROVE ShareKept(m)'
  <2>1. SUFFICES ASSUME Steady(m)', Root(m)' # m, Steady(Root(m))'
                 PROVE  Cardinality(ActiveRows(zones'[m])) <= MemberLimit(Primaries(zones'[Root(m)']))
    BY DEF ShareKept
  <2>2. m \in Registered \ {o} /\ Root(m)' = Root(m) /\ Root(m) # m /\ Root(m) # o
    BY <1>4, <1>6, <2>1
  <2>3. Root(m) \in Registered \ {o}
    BY <1>2, <2>2
  <2>4. Steady(m) /\ Steady(Root(m))
    <3>1. Steady(Root(m))' = (Root(m)' \in Registered' /\ Root(m)' \notin regraded' /\ Root(m)' \notin backfilled')
      BY DEF Steady, Whole
    <3> QED
      BY <1>3, <1>9, <2>1, <2>2, <2>3, <3>1 DEF Steady, Whole
  <2>5. zones'[m] = zones[m] /\ zones'[Root(m)] = zones[Root(m)]
    BY <1>2, <1>7, <2>2, <2>3
  <2> QED
    BY <1>1, <2>2, <2>4, <2>5 DEF ShareKept
<1>14. NamesApart(zones)'
  <2>1. SUFFICES ASSUME NEW x \in Registered', NEW y \in Registered',
                        x = y \/ (Root(x)' = Root(y)' /\ Root(x)' \notin regraded'),
                        NEW i \in ActiveRows(zones'[x]), NEW j \in ActiveRows(zones'[y]),
                        zones'[x][i].name = zones'[y][j].name
                 PROVE  x = y /\ i = j
    BY DEF NamesApart
  <2>2. /\ x \in Registered \ {o} /\ y \in Registered \ {o}
        /\ zones'[x] = zones[x] /\ zones'[y] = zones[y]
    BY <1>2, <1>6, <1>7
  <2>3. x = y \/ (Root(x) = Root(y) /\ Root(x) \notin regraded)
    <3>1. SUFFICES ASSUME x # y PROVE Root(x) = Root(y) /\ Root(x) \notin regraded
      OBVIOUS
    \* A member who is left alone is the root of nobody who was there before.
    <3>2. ASSUME NEW a \in Registered \ {o}, NEW b \in Registered \ {o}, a # b, Root(a) = o,
                 Root(b)' = a, a \notin regraded
          PROVE  FALSE
      <4>1. Root(b) = a
        BY <1>4, <3>2
      <4>2. Admin(a)
        BY <1>1, <3>2, <4>1 DEF RootsFit
      <4> QED
        BY <1>1, <3>2, <4>2 DEF RootsFit, Whole
    <3>3. Root(x)' = Root(y)' /\ Root(x)' \notin regraded'
      BY <2>1, <3>1
    <3>4. Root(x)' \in Registered \ {o} /\ Root(x)' \notin regraded
      BY <1>2, <1>3, <1>4, <2>2, <3>3
    <3>5. Root(x) # o
      BY <1>4, <2>2, <3>1, <3>2, <3>3, <3>4
    <3>6. Root(y) # o
      BY <1>4, <2>2, <3>1, <3>2, <3>3, <3>4
    <3> QED
      BY <1>4, <2>2, <3>3, <3>4, <3>5, <3>6
  <2> QED
    BY <1>1, <2>1, <2>2, <2>3 DEF NamesApart
<1> QED
  BY <1>8, <1>11, <1>12, <1>13, <1>14 DEF ZnInv

------------------------------------------------------------------------------
(* Zones: the steps that change rows *)

\* Accounts stand; what is left to show is about the rows.
LEMMA RowsTurn ==
  ASSUME ZnInv, UNCHANGED <<account, regraded>>,
         zones' \in [Owners -> Seq(ZnRows)],
         backfilled \subseteq backfilled', backfilled' \subseteq Registered,
         \A m \in Owners : m \notin Registered => zones'[m] = <<>>,
         \A m \in Registered : Steady(m) /\ m \notin backfilled' => QuotaKept(account[m], zones'[m]),
         \A m \in Registered :
             Steady(m) /\ Root(m) # m /\ Steady(Root(m)) /\ m \notin backfilled' /\ Root(m) \notin backfilled'
                 => Cardinality(ActiveRows(zones'[m])) <= MemberLimit(Primaries(zones'[Root(m)])),
         NamesApart(zones')
  PROVE  ZnInv'
<1>1. ZnTypeOK /\ RootsFit
  BY DEF ZnInv
<1>2. /\ Registered' = Registered /\ \A m : Root(m)' = Root(m) /\ Admin(m)' = Admin(m)
      /\ \A m : Whole(m)' = Whole(m)
  BY DEF Registered, Root, Admin, Whole
<1>3. ZnTypeOK'
  BY <1>1 DEF ZnTypeOK, Root, Registered, ZnRows
<1>4. RootsFit'
  BY <1>1 DEF RootsFit, Whole, Registered, Root, Admin
<1>5. \A m : Steady(m)' => Steady(m) /\ m \notin backfilled'
  BY <1>2 DEF Steady
<1>6. ASSUME NEW m \in Registered', Steady(m)' PROVE QuotaKept(account'[m], zones'[m])
  BY <1>2, <1>5, <1>6
<1>7. ASSUME NEW m \in Registered' PROVE ShareKept(m)'
  <2>1. SUFFICES ASSUME Steady(m)', Root(m)' # m, Steady(Root(m))'
                 PROVE  Cardinality(ActiveRows(zones'[m])) <= MemberLimit(Primaries(zones'[Root(m)']))
    BY DEF ShareKept
  <2>2. Root(m)' = Root(m) /\ m \in Registered /\ Steady(m) /\ m \notin backfilled'
    BY <1>2, <1>5, <2>1
  <2>3. Steady(Root(m)) /\ Root(m) \notin backfilled'
    BY <2>1, <2>2 DEF Steady, Whole, Registered
  <2> QED
    BY <2>1, <2>2, <2>3
<1>8. NamesApart(zones)'
  BY DEF NamesApart, Registered, Root
<1> QED
  BY <1>3, <1>4, <1>6, <1>7, <1>8 DEF ZnInv

LEMMA ThinsItself == ASSUME NEW s \in Seq(ZnRows) PROVE Thins(s, s)
<1> DEFINE same == [k \in DOMAIN s |-> k]
<1>1. same \in [DOMAIN s -> DOMAIN s] /\ \A k \in DOMAIN s : same[k] = k
  OBVIOUS
<1> HIDE DEF same
<1> QED
  BY <1>1 DEF Thins

LEMMA ThinQuota ==
  ASSUME NEW a, NEW s \in Seq(ZnRows), NEW t \in Seq(ZnRows), Thins(t, s), QuotaKept(a, s)
  PROVE  QuotaKept(a, t)
<1>1. /\ Cardinality(ActiveRows(t)) <= Cardinality(ActiveRows(s))
      /\ Primaries(t) <= Primaries(s) /\ Secondaries(t) <= Secondaries(s)
  BY ThinsCount
<1>2. /\ Cardinality(ActiveRows(t)) \in Nat /\ Primaries(t) \in Nat /\ Secondaries(t) \in Nat
      /\ Cardinality(ActiveRows(s)) \in Nat /\ Primaries(s) \in Nat /\ Secondaries(s) \in Nat
  BY RowCounts
<1> DEFINE nt == Cardinality(ActiveRows(t))
           ns == Cardinality(ActiveRows(s))
           pt == Primaries(t)
           ps == Primaries(s)
           ct == Secondaries(t)
           cs == Secondaries(s)
<1>0. /\ nt \in Nat /\ ns \in Nat /\ pt \in Nat /\ ps \in Nat /\ ct \in Nat /\ cs \in Nat
      /\ MaxPrimary \in Nat /\ MaxAdmin \in Nat /\ MaxSolo \in Nat
      /\ nt <= ns /\ pt <= ps /\ ct <= cs
  BY <1>1, <1>2, Limits
<1> HIDE DEF nt, ns, pt, ps, ct, cs
<1>3. CASE a.type = "exclusive"
  <2>1. ps <= 1 /\ cs <= MaxSolo
    BY <1>3 DEF QuotaKept, nt, ns, pt, ps, ct, cs
  <2>2. pt <= 1
    BY <1>0, <2>1
  <2>3. ct <= MaxSolo
    BY <1>0, <2>1
  <2> QED
    BY <1>3, <2>2, <2>3 DEF QuotaKept, nt, ns, pt, ps, ct, cs
<1>4. CASE a.type # "exclusive" /\ a.role = "administrator"
  <2>1. ps <= MaxPrimary /\ ns <= MaxAdmin
    BY <1>4 DEF QuotaKept, nt, ns, pt, ps, ct, cs
  <2>2. pt <= MaxPrimary
    BY <1>0, <2>1
  <2>3. nt <= MaxAdmin
    <3>1. nt \in Nat /\ ns \in Nat /\ MaxAdmin \in Nat /\ nt <= ns
      BY <1>0
    <3>2. ns <= MaxAdmin
      BY <2>1
    <3> QED
      BY <3>1, <3>2
  <2> QED
    BY <1>4, <2>2, <2>3 DEF QuotaKept, nt, ns, pt, ps, ct, cs
<1>5. CASE a.type # "exclusive" /\ a.role # "administrator"
  <2>1. ps = 0 /\ ns <= MaxAdmin
    BY <1>5 DEF QuotaKept, nt, ns, pt, ps, ct, cs
  <2>2. pt = 0
    BY <1>0, <2>1
  <2>3. nt <= MaxAdmin
    <3>1. nt \in Nat /\ ns \in Nat /\ MaxAdmin \in Nat /\ nt <= ns
      BY <1>0
    <3>2. ns <= MaxAdmin
      BY <2>1
    <3> QED
      BY <3>1, <3>2
  <2> QED
    BY <1>5, <2>2, <2>3 DEF QuotaKept, nt, ns, pt, ps, ct, cs
<1> QED
  BY <1>3, <1>4, <1>5

LEMMA ThinApart ==
  ASSUME NEW zs \in [Owners -> Seq(ZnRows)], NEW zt \in [Owners -> Seq(ZnRows)],
         Registered \subseteq Owners, \A m \in Owners : Thins(zt[m], zs[m]), NamesApart(zs)
  PROVE  NamesApart(zt)
<1>1. SUFFICES ASSUME NEW x \in Registered, NEW y \in Registered,
                      x = y \/ (Root(x) = Root(y) /\ Root(x) \notin regraded),
                      NEW i \in ActiveRows(zt[x]), NEW j \in ActiveRows(zt[y]),
                      zt[x][i].name = zt[y][j].name
               PROVE  x = y /\ i = j
  BY DEF NamesApart
<1>2. PICK fx \in [DOMAIN zt[x] -> DOMAIN zs[x]] :
          /\ \A k \in DOMAIN zt[x] : zt[x][k] # Gone => zt[x][k] = zs[x][fx[k]]
          /\ \A k, l \in DOMAIN zt[x] : fx[k] = fx[l] => k = l
  BY DEF Thins
<1>3. PICK fy \in [DOMAIN zt[y] -> DOMAIN zs[y]] :
          \A k \in DOMAIN zt[y] : zt[y][k] # Gone => zt[y][k] = zs[y][fy[k]]
  BY DEF Thins
<1>4. /\ i \in DOMAIN zt[x] /\ zt[x][i] # Gone /\ j \in DOMAIN zt[y] /\ zt[y][j] # Gone
  BY <1>1 DEF ActiveRows
<1>5. fx[i] \in ActiveRows(zs[x]) /\ fy[j] \in ActiveRows(zs[y])
  BY <1>2, <1>3, <1>4 DEF ActiveRows
<1>6. zs[x][fx[i]].name = zs[y][fy[j]].name
  BY <1>1, <1>2, <1>3, <1>4
<1>7. x = y
  BY <1>1, <1>5, <1>6 DEF NamesApart
<1>8. fx[j] \in ActiveRows(zs[x]) /\ zs[x][fx[i]].name = zs[x][fx[j]].name
  BY <1>1, <1>2, <1>4, <1>7 DEF ActiveRows
<1>9. fx[i] = fx[j]
  <2>1. /\ fx[i] \in ActiveRows(zs[x]) /\ fx[j] \in ActiveRows(zs[x])
        /\ zs[x][fx[i]].name = zs[x][fx[j]].name
    BY <1>5, <1>8
  <2>2. \A k, l \in ActiveRows(zs[x]) : zs[x][k].name = zs[x][l].name => k = l
    BY DEF NamesApart
  <2> QED
    BY <2>1, <2>2
<1> QED
  BY <1>2, <1>4, <1>7, <1>9

\* A step that only deletes.
LEMMA ThinningKeeps ==
  ASSUME ZnInv, UNCHANGED <<account, regraded, backfilled>>, zones' \in [Owners -> Seq(ZnRows)],
         \A m \in Owners : m \notin Registered => zones'[m] = <<>>,
         \A m \in Owners : Thins(zones'[m], zones[m])
  PROVE  ZnInv'
<1>1. /\ ZnTypeOK /\ NamesApart(zones)
      /\ \A m \in Registered : Steady(m) => QuotaKept(account[m], zones[m])
      /\ \A m \in Registered : ShareKept(m)
  BY DEF ZnInv
<1>2. /\ Registered \subseteq Owners /\ zones \in [Owners -> Seq(ZnRows)]
      /\ \A m \in Registered : Root(m) \in Registered
      /\ backfilled \subseteq Registered
  BY <1>1, OwnerFacts DEF ZnTypeOK
<1>3. NamesApart(zones')
  BY <1>1, <1>2, ThinApart
<1>4. \A m \in Registered : Steady(m) => QuotaKept(account[m], zones'[m])
  BY <1>1, <1>2, ThinQuota
<1>5. ASSUME NEW m \in Registered, Steady(m), Root(m) # m, Steady(Root(m))
      PROVE  Cardinality(ActiveRows(zones'[m])) <= MemberLimit(Primaries(zones'[Root(m)]))
  <2> DEFINE r == Root(m)
  <2>1. r \in Owners /\ m \in Owners
    BY <1>2
  <2>2. Cardinality(ActiveRows(zones[m])) <= MemberLimit(Primaries(zones[r]))
    BY <1>1, <1>5 DEF ShareKept
  <2> HIDE DEF r
  <2>3. /\ Cardinality(ActiveRows(zones'[m])) <= Cardinality(ActiveRows(zones[m]))
        /\ Primaries(zones'[r]) <= Primaries(zones[r])
    BY <1>2, <2>1, ThinsCount
  <2>4. /\ Cardinality(ActiveRows(zones'[m])) \in Nat /\ Cardinality(ActiveRows(zones[m])) \in Nat
        /\ Primaries(zones'[r]) \in Nat /\ Primaries(zones[r]) \in Nat
    BY <1>2, <2>1, RowCounts
  <2>5. /\ MemberLimit(Primaries(zones[r])) \in Nat /\ MemberLimit(Primaries(zones'[r])) \in Nat
        /\ MemberLimit(Primaries(zones[r])) <= MemberLimit(Primaries(zones'[r]))
    BY <2>3, <2>4, Limits
  <2> QED
    BY <2>2, <2>3, <2>4, <2>5 DEF r
<1> QED
  BY <1>2, <1>3, <1>4, <1>5, RowsTurn

LEMMA DeleteZoneKeeps ==
  ASSUME ZnInv, NEW o \in Owners, NEW i \in DOMAIN zones[o], DeleteZone(o, i)
  PROVE  ZnInv' /\ \A m \in Owners : zones'[m] \in Seq(ZnRows) /\ Thins(zones'[m], zones[m])
<1>1. zones \in [Owners -> Seq(ZnRows)] /\ \A m \in Owners : m \notin Registered => zones[m] = <<>>
  BY OwnerFacts DEF ZnInv
<1>2. /\ zones' = [zones EXCEPT ![o] = SoftDelete(zones[o], {i})]
      /\ UNCHANGED <<account, regraded, backfilled>>
  BY DEF DeleteZone
<1>3. SoftDelete(zones[o], {i}) \in Seq(ZnRows) /\ Thins(SoftDelete(zones[o], {i}), zones[o])
  BY <1>1, SoftDeleteThins
<1>4. zones' \in [Owners -> Seq(ZnRows)]
  BY <1>1, <1>2, <1>3
<1>5. \A m \in Owners : Thins(zones'[m], zones[m])
  BY <1>1, <1>2, <1>3, ThinsItself
<1>6. o \in Registered
  <2>1. zones[o] # <<>>
    OBVIOUS
  <2> QED
    BY <1>1, <2>1
<1>7. \A m \in Owners : m \notin Registered => zones'[m] = <<>>
  BY <1>1, <1>2, <1>6
<1> QED
  BY <1>2, <1>4, <1>5, <1>7, ThinningKeeps

\* Renaming and promoting rows keeps them where they are; only the names matter.
LEMMA SameRows ==
  ASSUME NEW s \in Seq(ZnRows), NEW t \in Seq(ZnRows), ActiveRows(t) = ActiveRows(s),
         \A i \in ActiveRows(s) : t[i].primary = s[i].primary
  PROVE  Primaries(t) = Primaries(s) /\ Secondaries(t) = Secondaries(s)
<1>1. /\ \A r \in {s, t} : PrimaryRows(r) = {i \in ActiveRows(r) : r[i].primary}
      /\ \A r \in {s, t} : SecondaryRows(r) = {i \in ActiveRows(r) : ~r[i].primary}
  BY DEF PrimaryRows, SecondaryRows, ActiveRows, IsPrimary, IsSecondary
<1>2. PrimaryRows(t) = PrimaryRows(s) /\ SecondaryRows(t) = SecondaryRows(s)
  BY <1>1
<1> QED
  BY <1>2 DEF Primaries, Secondaries

LEMMA RenameZoneKeeps ==
  ASSUME ZnInv, NEW o \in Owners, NEW i \in DOMAIN zones[o], NEW name \in Names,
         RenameZone(o, i, name)
  PROVE  /\ ZnInv'
         /\ \A m \in Owners : ActiveRows(zones'[m]) = ActiveRows(zones[m])
<1>1. /\ ZnTypeOK /\ NamesApart(zones)
      /\ \A m \in Registered : Steady(m) => QuotaKept(account[m], zones[m])
      /\ \A m \in Registered : ShareKept(m)
  BY DEF ZnInv
<1>2. /\ zones \in [Owners -> Seq(ZnRows)] /\ Registered \subseteq Owners
      /\ \A m \in Owners : m \notin Registered => zones[m] = <<>>
      /\ \A m \in Registered : Root(m) \in Registered
      /\ backfilled \subseteq Registered
  BY <1>1, OwnerFacts DEF ZnTypeOK
<1> DEFINE others == [zones EXCEPT ![o][i] = Gone]
           new == [zones[o][i] EXCEPT !.name = name]
           t == [zones[o] EXCEPT ![i] = new]
<1>3. /\ zones[o][i] # Gone /\ name \notin NamesTaken(others, o)
      /\ zones' = [zones EXCEPT ![o] = t]
      /\ UNCHANGED <<account, regraded, backfilled>>
  BY <1>2 DEF RenameZone
<1>4. /\ zones[o] \in Seq(ZnRows) /\ zones[o][i] \in Rows
  BY <1>2, <1>3 DEF ZnRows
<1>5. new \in Rows /\ new # Gone /\ new.name = name /\ new.primary = zones[o][i].primary
  BY <1>4, ZnNullsOK DEF Rows
<1> HIDE DEF new
<1>6. /\ t \in Seq(ZnRows) /\ DOMAIN t = DOMAIN zones[o] /\ t[i] = new
      /\ \A k \in DOMAIN t : k # i => t[k] = zones[o][k]
  BY <1>4, <1>5 DEF ZnRows
<1> HIDE DEF t
<1>7. ActiveRows(t) = ActiveRows(zones[o]) /\ \A k \in ActiveRows(t) : t[k].primary = zones[o][k].primary
  <2>1. \A k \in DOMAIN t : /\ t[k] # Gone <=> zones[o][k] # Gone
                            /\ t[k].primary = zones[o][k].primary
    BY <1>3, <1>5, <1>6
  <2> QED
    BY <1>6, <2>1 DEF ActiveRows
<1>8. zones' \in [Owners -> Seq(ZnRows)] /\ zones'[o] = t /\ \A m \in Owners \ {o} : zones'[m] = zones[m]
  BY <1>2, <1>3, <1>6
<1>9. ASSUME NEW m \in Owners
      PROVE  /\ ActiveRows(zones'[m]) = ActiveRows(zones[m])
             /\ Primaries(zones'[m]) = Primaries(zones[m])
             /\ Secondaries(zones'[m]) = Secondaries(zones[m])
  <2>1. CASE m = o
    BY <1>2, <1>6, <1>7, <1>8, <2>1, SameRows
  <2>2. CASE m # o
    BY <1>8, <2>2
  <2> QED
    BY <2>1, <2>2
<1>10. o \in Registered
  BY <1>2
<1>11. \A m \in Owners : m \notin Registered => zones'[m] = <<>>
  BY <1>2, <1>8, <1>10
<1>12. \A m \in Registered : Steady(m) => QuotaKept(account[m], zones'[m])
  BY <1>1, <1>2, <1>9 DEF QuotaKept
<1>13. ASSUME NEW m \in Registered, Steady(m), Root(m) # m, Steady(Root(m))
       PROVE  Cardinality(ActiveRows(zones'[m])) <= MemberLimit(Primaries(zones'[Root(m)]))
  BY <1>1, <1>2, <1>9, <1>13 DEF ShareKept
\* A name that another row of the account has, before or after, is not the new one.
<1>14. NamesApart(zones')
  <2>1. SUFFICES ASSUME NEW x \in Registered, NEW y \in Registered,
                        x = y \/ (Root(x) = Root(y) /\ Root(x) \notin regraded),
                        NEW k \in ActiveRows(zones'[x]), NEW l \in ActiveRows(zones'[y]),
                        zones'[x][k].name = zones'[y][l].name
                 PROVE  x = y /\ k = l
    BY DEF NamesApart
  <2>2. k \in ActiveRows(zones[x]) /\ l \in ActiveRows(zones[y])
    BY <1>2, <1>9
  <2>3. ASSUME NEW m \in Registered, Root(m) = Root(o), NEW n \in ActiveRows(zones[m]), ~(m = o /\ n = i)
        PROVE  zones[m][n].name # name /\ zones'[m][n] = zones[m][n]
    <3>1. n \in ActiveRows(others[m]) /\ others[m][n] = zones[m][n]
      BY <1>2, <1>4, <2>3 DEF ActiveRows
    <3>2. m \in Scope(o)
      BY <2>3 DEF Scope
    <3>3. others[m][n].name \in NamesTaken(others, o)
      <4> HIDE DEF others
      <4> QED
        BY <3>1, <3>2 DEF NamesTaken, NamesOf
    <3>4. zones'[m][n] = zones[m][n]
      <4>1. CASE m = o
        BY <1>6, <1>8, <2>3, <4>1 DEF ActiveRows
      <4>2. CASE m # o
        BY <1>2, <1>8, <4>2
      <4> QED
        BY <4>1, <4>2
    <3> HIDE DEF others
    <3> QED
      BY <1>3, <3>1, <3>3, <3>4
  <2>4. CASE x = o /\ k = i
    <3>1. zones'[x][k].name = name
      BY <1>5, <1>6, <1>8, <2>4
    <3>2. Root(y) = Root(o)
      BY <2>1, <2>4
    <3> QED
      BY <2>1, <2>2, <2>3, <2>4, <3>1, <3>2
  <2>5. CASE y = o /\ l = i
    <3>1. zones'[y][l].name = name
      BY <1>5, <1>6, <1>8, <2>5
    <3>2. Root(x) = Root(o)
      BY <2>1, <2>5
    <3> QED
      BY <2>1, <2>2, <2>3, <2>5, <3>1, <3>2
  <2>6. CASE ~(x = o /\ k = i) /\ ~(y = o /\ l = i)
    <3>1. ASSUME NEW m \in Registered, NEW n \in ActiveRows(zones[m]), ~(m = o /\ n = i)
          PROVE  zones'[m][n] = zones[m][n]
      <4>1. CASE m = o
        BY <1>6, <1>8, <3>1, <4>1 DEF ActiveRows
      <4>2. CASE m # o
        BY <1>2, <1>8, <4>2
      <4> QED
        BY <4>1, <4>2
    <3>2. zones[x][k].name = zones[y][l].name
      BY <2>1, <2>2, <2>6, <3>1
    <3> QED
      BY <1>1, <2>1, <2>2, <3>2 DEF NamesApart
  <2> QED
    BY <2>4, <2>5, <2>6
<1>15. ZnInv'
  BY <1>2, <1>3, <1>8, <1>11, <1>12, <1>13, <1>14, RowsTurn
<1> QED
  BY <1>9, <1>15

LEMMA BackfillRows ==
  ASSUME NEW s \in Seq(ZnRows)
  PROVE  /\ Backfill(s) \in Seq(ZnRows) /\ ActiveRows(Backfill(s)) = ActiveRows(s)
         /\ \A i \in ActiveRows(s) : Backfill(s)[i].name = s[i].name
<1>1. DOMAIN s = 1..Len(s) /\ Len(s) \in Nat /\ \A i \in DOMAIN s : s[i] \in ZnRows
  OBVIOUS
<1>2. ASSUME NEW i \in DOMAIN s
      PROVE  /\ Backfill(s)[i] \in ZnRows /\ (Backfill(s)[i] = Gone <=> s[i] = Gone)
             /\ s[i] # Gone => Backfill(s)[i].name = s[i].name
  <2>1. CASE i <= BackfillDepth /\ s[i] # Gone
    <3>1. Backfill(s)[i] = [s[i] EXCEPT !.primary = TRUE] /\ s[i] \in Rows
      BY <1>1, <2>1 DEF Backfill, ZnRows
    <3>2. Backfill(s)[i] \in Rows /\ Backfill(s)[i].name = s[i].name
      BY <3>1 DEF Rows
    <3> QED
      BY <2>1, <3>2, ZnNullsOK DEF ZnRows
  <2>2. CASE ~(i <= BackfillDepth /\ s[i] # Gone)
    BY <1>1, <2>2 DEF Backfill
  <2> QED
    BY <2>1, <2>2
<1>3. Backfill(s) \in [1..Len(s) -> ZnRows] /\ DOMAIN Backfill(s) = DOMAIN s
  BY <1>1, <1>2 DEF Backfill
<1>4. Backfill(s) \in Seq(ZnRows)
  BY <1>1, <1>3
<1> QED
  BY <1>2, <1>3, <1>4 DEF ActiveRows

LEMMA BackfillingKeeps ==
  ASSUME ZnInv, Backfilling
  PROVE  /\ ZnInv'
         /\ \A m \in Owners : ActiveRows(zones'[m]) = ActiveRows(zones[m])
<1>1. /\ ZnTypeOK /\ NamesApart(zones)
      /\ \A m \in Registered : Steady(m) => QuotaKept(account[m], zones[m])
      /\ \A m \in Registered : ShareKept(m)
  BY DEF ZnInv
<1>2. /\ zones \in [Owners -> Seq(ZnRows)] /\ Registered \subseteq Owners
      /\ \A m \in Owners : m \notin Registered => zones[m] = <<>>
      /\ \A m \in Registered : Root(m) \in Registered
      /\ backfilled \subseteq Registered
  BY <1>1, OwnerFacts DEF ZnTypeOK
<1>3. /\ zones' = [o \in Owners |-> IF o \in Registered /\ Admin(o) THEN Backfill(zones[o]) ELSE zones[o]]
      /\ backfilled' = backfilled \cup {o \in Owners : zones'[o] # zones[o]}
      /\ UNCHANGED <<account, regraded>>
  BY DEF Backfilling
<1>4. ASSUME NEW m \in Owners
      PROVE  /\ zones'[m] \in Seq(ZnRows) /\ ActiveRows(zones'[m]) = ActiveRows(zones[m])
             /\ \A i \in ActiveRows(zones[m]) : zones'[m][i].name = zones[m][i].name
             /\ m \notin Registered => zones'[m] = <<>>
  <2>1. CASE m \in Registered /\ Admin(m)
    <3>1. zones'[m] = Backfill(zones[m])
      BY <1>3, <2>1
    <3> QED
      BY <1>2, <2>1, <3>1, BackfillRows
  <2>2. CASE ~(m \in Registered /\ Admin(m))
    BY <1>2, <1>3, <2>2
  <2> QED
    BY <2>1, <2>2
<1>5. zones' \in [Owners -> Seq(ZnRows)]
  BY <1>3, <1>4
<1>6. \A m \in Owners : m \notin backfilled' => zones'[m] = zones[m]
  BY <1>3
<1>7. backfilled \subseteq backfilled' /\ backfilled' \subseteq Registered
  BY <1>2, <1>3, <1>4
<1>8. \A m \in Registered : Steady(m) /\ m \notin backfilled' => QuotaKept(account[m], zones'[m])
  BY <1>1, <1>2, <1>6
<1>9. ASSUME NEW m \in Registered, Steady(m), Root(m) # m, Steady(Root(m)), m \notin backfilled',
             Root(m) \notin backfilled'
      PROVE  Cardinality(ActiveRows(zones'[m])) <= MemberLimit(Primaries(zones'[Root(m)]))
  BY <1>1, <1>2, <1>6, <1>9 DEF ShareKept
<1>10. NamesApart(zones')
  <2>1. SUFFICES ASSUME NEW x \in Registered, NEW y \in Registered,
                        x = y \/ (Root(x) = Root(y) /\ Root(x) \notin regraded),
                        NEW i \in ActiveRows(zones'[x]), NEW j \in ActiveRows(zones'[y]),
                        zones'[x][i].name = zones'[y][j].name
                 PROVE  x = y /\ i = j
    BY DEF NamesApart
  <2>2. i \in ActiveRows(zones[x]) /\ j \in ActiveRows(zones[y]) /\ zones[x][i].name = zones[y][j].name
    BY <1>2, <1>4, <2>1
  <2> QED
    BY <1>1, <2>1, <2>2 DEF NamesApart
<1>11. ZnInv'
  BY <1>3, <1>4, <1>5, <1>7, <1>8, <1>9, <1>10, RowsTurn
<1> QED
  BY <1>4, <1>11

------------------------------------------------------------------------------
(* Zones: a zone is created *)

LEMMA Evicted ==
  ASSUME ZnInv, NEW o \in Registered
  PROVE  /\ Evict(o) \in [Owners -> Seq(ZnRows)] /\ Evict(o)[o] = zones[o]
         /\ \A m \in Owners : Thins(Evict(o)[m], zones[m])
         /\ \A m \in Owners : m \notin Registered => Evict(o)[m] = <<>>
         /\ \A m \in Scope(o) \ {o} :
                LET limit == MemberLimit(Primaries(zones[o]) + 1)
                IN  Evict(o)[m] = SoftDelete(zones[m], Overflow(zones[m], limit))
<1>1. /\ zones \in [Owners -> Seq(ZnRows)] /\ Registered \subseteq Owners
      /\ \A m \in Owners : m \notin Registered => zones[m] = <<>>
  BY OwnerFacts DEF ZnInv
<1> DEFINE limit == MemberLimit(Primaries(zones[o]) + 1)
           left(m) == SoftDelete(zones[m], Overflow(zones[m], limit))
<1>2. Evict(o) = [m \in Owners |-> IF m \in Scope(o) \ {o} THEN left(m) ELSE zones[m]]
  BY DEF Evict
<1>3. \A m \in Owners : left(m) \in Seq(ZnRows) /\ Thins(left(m), zones[m])
  BY <1>1, SoftDeleteThins
<1> HIDE DEF left
<1>4. \A m \in Owners : Evict(o)[m] \in Seq(ZnRows) /\ Thins(Evict(o)[m], zones[m])
  BY <1>1, <1>2, <1>3, ThinsItself
<1>5. Scope(o) \subseteq Registered
  BY DEF Scope
<1> QED
  BY <1>1, <1>2, <1>4, <1>5 DEF left

\* A new zone, and what creating it leaves of the others'.
NewRow(name, primary) == [name |-> name, primary |-> primary]
Others(o, primary) == IF primary THEN Evict(o) ELSE zones

\* What CreateZone does, before anything is said about quotas and names.
LEMMA Created ==
  ASSUME ZnInv, NEW o \in Owners, NEW name \in Names, NEW primary \in BOOLEAN,
         CreateZone(o, name, primary)
  PROVE  /\ o \in Registered /\ Counted(o) < Limit(o) /\ (primary => MayCreatePrimary(o))
         /\ NewRow(name, primary) \in Rows /\ NewRow(name, primary).primary = primary
         /\ NewRow(name, primary).name = name /\ name \notin NamesTaken(Others(o, primary), o)
         /\ Others(o, primary) \in [Owners -> Seq(ZnRows)] /\ Others(o, primary)[o] = zones[o]
         /\ \A m \in Owners : Thins(Others(o, primary)[m], zones[m])
         /\ zones' \in [Owners -> Seq(ZnRows)]
         /\ zones'[o] = Append(zones[o], NewRow(name, primary))
         /\ \A m \in Owners \ {o} : zones'[m] = Others(o, primary)[m] /\ Thins(zones'[m], zones[m])
         /\ \A m \in Owners : m \notin Registered => zones'[m] = <<>>
         /\ UNCHANGED <<account, regraded, backfilled>>
<1> DEFINE row == NewRow(name, primary)
           others == Others(o, primary)
<1>1. /\ zones \in [Owners -> Seq(ZnRows)] /\ Registered \subseteq Owners
      /\ \A m \in Owners : m \notin Registered => zones[m] = <<>>
  BY OwnerFacts DEF ZnInv
<1>2. /\ o \in Registered /\ Counted(o) < Limit(o) /\ (primary => MayCreatePrimary(o))
      /\ name \notin NamesTaken(others, o)
      /\ zones' = [others EXCEPT ![o] = Append(others[o], row)]
      /\ UNCHANGED <<account, regraded, backfilled>>
  BY DEF CreateZone, NewRow, Others
<1>3. row \in Rows /\ row.primary = primary /\ row.name = name
  BY DEF Rows, NewRow
<1>4. /\ others \in [Owners -> Seq(ZnRows)] /\ others[o] = zones[o]
      /\ \A m \in Owners : Thins(others[m], zones[m])
      /\ \A m \in Owners : m \notin Registered => others[m] = <<>>
  <2>1. CASE primary
    BY <1>2, <2>1, Evicted DEF Others
  <2>2. CASE ~primary
    BY <1>1, <2>2, ThinsItself DEF Others
  <2> QED
    BY <2>1, <2>2
<1>5. Append(zones[o], row) \in Seq(ZnRows)
  BY <1>1, <1>3, AppendCounts
<1> HIDE DEF row, others
<1>6. zones' = [others EXCEPT ![o] = Append(zones[o], row)]
  BY <1>2, <1>4
<1>7. /\ zones' \in [Owners -> Seq(ZnRows)] /\ zones'[o] = Append(zones[o], row)
      /\ \A m \in Owners \ {o} : zones'[m] = others[m]
  BY <1>4, <1>5, <1>6
<1>8. \A m \in Owners \ {o} : Thins(zones'[m], zones[m])
  BY <1>4, <1>7
<1>9. \A m \in Owners : m \notin Registered => zones'[m] = <<>>
  BY <1>2, <1>4, <1>7
<1> QED
  BY <1>2, <1>3, <1>4, <1>7, <1>8, <1>9 DEF row, others

\* A member in a steady account: all its zones are secondary.
LEMMA SteadyMember ==
  ASSUME ZnInv, NEW m \in Registered, Steady(m), Root(m) # m
  PROVE  ~Admin(m) /\ ~Solo(m) /\ Primaries(zones[m]) = 0 /\ PrimaryRows(zones[m]) = {}
<1>1. ZnTypeOK /\ RootsFit /\ QuotaKept(account[m], zones[m])
  BY DEF ZnInv
<1>2. zones[m] \in Seq(ZnRows)
  BY <1>1, OwnerFacts
<1>3. ~Admin(m) /\ account[m].type # "exclusive"
  BY <1>1 DEF RootsFit, Steady
<1>4. Primaries(zones[m]) = 0
  BY <1>1, <1>3 DEF QuotaKept, Admin
<1>5. PrimaryRows(zones[m]) = {}
  <2>1. IsFiniteSet(PrimaryRows(zones[m])) /\ Cardinality(PrimaryRows(zones[m])) = 0
    BY <1>2, <1>4, RowCounts DEF Primaries
  <2> QED
    BY <2>1, FS_EmptySet
<1> QED
  BY <1>3, <1>4, <1>5 DEF Solo

\* Its creator keeps its own quota.
LEMMA CreatorKeepsQuota ==
  ASSUME ZnInv, NEW o \in Owners, NEW name \in Names, NEW primary \in BOOLEAN,
         CreateZone(o, name, primary), Steady(o)
  PROVE  QuotaKept(account[o], zones'[o])
<1> DEFINE s == zones[o]
           t == zones'[o]
<1>1. ZnTypeOK /\ RootsFit /\ QuotaKept(account[o], s)
  BY DEF ZnInv, Steady, Whole
<1>2. s \in Seq(ZnRows)
  BY <1>1, OwnerFacts
<1>3. /\ o \in Registered /\ Counted(o) < Limit(o) /\ (primary => MayCreatePrimary(o))
  BY Created
<1>4. /\ Cardinality(ActiveRows(t)) = Cardinality(ActiveRows(s)) + 1
      /\ Primaries(t) = IF primary THEN Primaries(s) + 1 ELSE Primaries(s)
      /\ Secondaries(t) = IF primary THEN Secondaries(s) ELSE Secondaries(s) + 1
  <2> DEFINE row == NewRow(name, primary)
  <2>1. t = Append(s, row) /\ row \in Rows /\ row.primary = primary
    BY Created
  <2> HIDE DEF row, t, s
  <2> QED
    BY <1>2, <2>1, AppendCounts
<1>5. Cardinality(ActiveRows(s)) \in Nat /\ Primaries(s) \in Nat /\ Secondaries(s) \in Nat
  BY <1>2, RowCounts
<1> HIDE DEF t
<1>6. CASE account[o].type = "exclusive"
  <2>1. Solo(o)
    BY <1>1, <1>3, <1>6 DEF RootsFit, Steady, Solo
  <2>2. Secondaries(s) < MaxSolo /\ ~primary
    BY <1>3, <2>1 DEF Counted, Limit, MayCreatePrimary
  <2>3. Primaries(s) <= 1
    BY <1>1, <1>6 DEF QuotaKept
  <2>4. Primaries(t) <= 1
    BY <1>4, <2>2, <2>3
  <2>5. Secondaries(t) <= MaxSolo
    BY <1>4, <1>5, <2>2 DEF MaxSolo
  <2> QED
    BY <1>6, <2>4, <2>5 DEF QuotaKept, t
<1>7. CASE account[o].type # "exclusive" /\ Admin(o)
  <2>1. ~Solo(o)
    BY <1>7 DEF Solo
  <2>2. Cardinality(ActiveRows(s)) < MaxAdmin /\ (primary => Primaries(s) < MaxPrimary)
    BY <1>3, <1>7, <2>1 DEF Counted, Limit, MayCreatePrimary
  <2>3. Primaries(s) <= MaxPrimary
    BY <1>1, <1>7 DEF QuotaKept, Admin
  <2>4. MaxAdmin \in Nat /\ MaxPrimary \in Nat
    BY Limits
  <2>5. Primaries(t) <= MaxPrimary
    BY <1>4, <1>5, <2>2, <2>3, <2>4
  <2>6. Cardinality(ActiveRows(t)) <= MaxAdmin
    BY <1>4, <1>5, <2>2, <2>4
  <2> QED
    BY <1>7, <2>5, <2>6 DEF QuotaKept, Admin, t
<1>8. CASE account[o].type # "exclusive" /\ ~Admin(o)
  <2>1. ~Solo(o) /\ ~primary
    BY <1>3, <1>8 DEF Solo, MayCreatePrimary
  <2>2. Cardinality(ActiveRows(s)) < MemberLimit(Primaries(zones[Root(o)]))
    BY <1>3, <1>8, <2>1 DEF Counted, Limit
  <2>3. Primaries(zones[Root(o)]) \in Nat
    BY <1>1, <1>3, OwnerFacts, RowCounts
  <2>4. /\ MemberLimit(Primaries(zones[Root(o)])) \in Nat /\ MaxAdmin \in Nat
        /\ MemberLimit(Primaries(zones[Root(o)])) <= MaxAdmin
    BY <2>3, Limits
  <2>5. Cardinality(ActiveRows(t)) <= MaxAdmin
    BY <1>4, <1>5, <2>2, <2>4
  <2>6. Primaries(t) = 0
    BY <1>1, <1>4, <1>8, <2>1 DEF QuotaKept, Admin
  <2> QED
    BY <1>8, <2>5, <2>6 DEF QuotaKept, Admin, t
<1> QED
  BY <1>6, <1>7, <1>8 DEF t

\* What its members keep when an administrator creates a primary.
LEMMA CreatorEvicts ==
  ASSUME ZnInv, NEW o \in Owners, NEW name \in Names, NEW primary \in BOOLEAN,
         CreateZone(o, name, primary),
         NEW m \in Registered, Root(m) = o, m # o, o \notin regraded
  PROVE  primary => zones'[m] = SoftDelete(zones[m], Overflow(zones[m], MemberLimit(Primaries(zones'[o]))))
<1>1. ZnTypeOK /\ RootsFit /\ zones[o] \in Seq(ZnRows) /\ m \in Owners
  BY OwnerFacts DEF ZnInv
<1>2. o \in Registered
  BY Created
<1>3. Root(o) = o
  BY <1>1, <1>2 DEF RootsFit, Whole
<1>4. m \in Scope(o) \ {o}
  BY <1>3 DEF Scope
<1>5. Evict(o)[m] = SoftDelete(zones[m], Overflow(zones[m], MemberLimit(Primaries(zones[o]) + 1)))
  BY <1>2, <1>4, Evicted
<1>6. zones'[m] = Others(o, primary)[m]
  <2>1. \A x \in Owners \ {o} : zones'[x] = Others(o, primary)[x] /\ Thins(zones'[x], zones[x])
    BY Created
  <2> QED
    BY <1>1, <2>1
<1>7. /\ zones'[o] = Append(zones[o], NewRow(name, primary)) /\ NewRow(name, primary) \in Rows
      /\ NewRow(name, primary).primary = primary
  BY Created
<1>8. HAVE primary
<1>9. zones'[m] = Evict(o)[m]
  BY <1>6, <1>8 DEF Others
<1>10. Primaries(zones'[o]) = Primaries(zones[o]) + 1
  <2> DEFINE row == NewRow(name, primary)
             s == zones[o]
  <2>1. s \in Seq(ZnRows) /\ row \in Rows /\ row.primary = primary /\ zones'[o] = Append(s, row)
    BY <1>1, <1>7
  <2> HIDE DEF row, s
  <2>2. Primaries(Append(s, row)) = IF row.primary THEN Primaries(s) + 1 ELSE Primaries(s)
    BY <2>1, AppendCounts
  <2> QED
    BY <1>8, <2>1, <2>2 DEF s
<1> QED
  BY <1>5, <1>9, <1>10

\* Its members, its own administrator and everybody else keep their shares.
LEMMA SharesKept ==
  ASSUME ZnInv, NEW o \in Owners, NEW name \in Names, NEW primary \in BOOLEAN,
         CreateZone(o, name, primary),
         NEW m \in Registered, Steady(m), Root(m) # m, Steady(Root(m))
  PROVE  Cardinality(ActiveRows(zones'[m])) <= MemberLimit(Primaries(zones'[Root(m)]))
<1>1. /\ zones \in [Owners -> Seq(ZnRows)] /\ zones' \in [Owners -> Seq(ZnRows)]
      /\ m \in Owners /\ Root(m) \in Owners
      /\ Cardinality(ActiveRows(zones[m])) <= MemberLimit(Primaries(zones[Root(m)]))
  <2>1. zones \in [Owners -> Seq(ZnRows)] /\ m \in Owners /\ Root(m) \in Owners
    BY OwnerFacts DEF ZnInv
  <2>2. Cardinality(ActiveRows(zones[m])) <= MemberLimit(Primaries(zones[Root(m)]))
    BY DEF ZnInv, ShareKept
  <2>3. zones' \in [Owners -> Seq(ZnRows)]
    BY Created
  <2> QED
    BY <2>1, <2>2, <2>3
<1>2. \A x \in Owners \ {o} : zones'[x] = Others(o, primary)[x] /\ Thins(zones'[x], zones[x])
  BY Created
<1>3. \A x \in Owners : /\ Cardinality(ActiveRows(zones[x])) \in Nat /\ Primaries(zones[x]) \in Nat
                        /\ Cardinality(ActiveRows(zones'[x])) \in Nat /\ Primaries(zones'[x]) \in Nat
  BY <1>1, RowCounts
<1>4. \A x \in Owners \ {o} : /\ Cardinality(ActiveRows(zones'[x])) <= Cardinality(ActiveRows(zones[x]))
                              /\ Primaries(zones'[x]) <= Primaries(zones[x])
  BY <1>1, <1>2, ThinsCount
<1>5. /\ zones'[o] = Append(zones[o], NewRow(name, primary)) /\ NewRow(name, primary) \in Rows
      /\ NewRow(name, primary).primary = primary
      /\ Counted(o) < Limit(o) /\ (primary => MayCreatePrimary(o))
  BY Created
<1>6. /\ Cardinality(ActiveRows(zones'[o])) = Cardinality(ActiveRows(zones[o])) + 1
      /\ Primaries(zones'[o]) = IF primary THEN Primaries(zones[o]) + 1 ELSE Primaries(zones[o])
  BY <1>1, <1>5, AppendCounts
<1>7. CASE m = o
  <2>1. ~Admin(o) /\ ~Solo(o)
    BY <1>7, SteadyMember
  <2>2. ~primary
    BY <1>5, <2>1 DEF MayCreatePrimary
  <2>3. Cardinality(ActiveRows(zones[o])) < MemberLimit(Primaries(zones[Root(o)]))
    BY <1>5, <2>1 DEF Counted, Limit
  <2>4. zones'[Root(o)] = zones[Root(o)]
    BY <1>1, <1>2, <1>7, <2>2 DEF Others
  <2>5. MemberLimit(Primaries(zones[Root(o)])) \in Nat
    BY <1>1, <1>3, <1>7, Limits
  <2>6. Cardinality(ActiveRows(zones'[o])) <= MemberLimit(Primaries(zones[Root(o)]))
    <3>1. Cardinality(ActiveRows(zones[o])) \in Nat
      BY <1>1, <1>3
    <3> QED
      BY <1>6, <2>3, <2>5, <3>1
  <2> QED
    BY <1>7, <2>4, <2>6
<1>8. CASE Root(m) = o /\ primary
  <2>1. o \notin regraded /\ m # o
    BY <1>8 DEF Steady, Whole
  <2>2. zones'[m] = SoftDelete(zones[m], Overflow(zones[m], MemberLimit(Primaries(zones'[o]))))
    BY <1>8, <2>1, CreatorEvicts
  <2>3. PrimaryRows(zones[m]) = {}
    BY SteadyMember
  <2>4. MemberLimit(Primaries(zones'[o])) \in Nat
    BY <1>3, Limits
  <2>5. zones[m] \in Seq(ZnRows)
    BY <1>1
  <2>6. Cardinality(ActiveRows(zones'[m])) <= MemberLimit(Primaries(zones'[o]))
    BY <2>2, <2>3, <2>4, <2>5, EvictedCount
  <2> QED
    BY <1>8, <2>6
<1>9. CASE Root(m) = o /\ ~primary
  <2>1. zones'[m] = zones[m]
    BY <1>1, <1>2, <1>9 DEF Others
  <2>2. Primaries(zones'[o]) = Primaries(zones[o])
    BY <1>6, <1>9
  <2> QED
    BY <1>1, <1>9, <2>1, <2>2
<1>10. CASE m # o /\ Root(m) # o
  <2>1. Cardinality(ActiveRows(zones'[m])) <= Cardinality(ActiveRows(zones[m]))
    BY <1>1, <1>4, <1>10
  <2>2. Primaries(zones'[Root(m)]) <= Primaries(zones[Root(m)])
    BY <1>1, <1>4, <1>10
  <2>3. MemberLimit(Primaries(zones[Root(m)])) <= MemberLimit(Primaries(zones'[Root(m)]))
    BY <1>1, <1>3, <2>2, Limits
  <2>4. /\ MemberLimit(Primaries(zones[Root(m)])) \in Nat
        /\ MemberLimit(Primaries(zones'[Root(m)])) \in Nat
    BY <1>1, <1>3, Limits
  <2>5. Cardinality(ActiveRows(zones[m])) \in Nat /\ Cardinality(ActiveRows(zones'[m])) \in Nat
    BY <1>1, <1>3
  <2> QED
    BY <1>1, <2>1, <2>3, <2>4, <2>5
<1> QED
  BY <1>7, <1>8, <1>9, <1>10

\* The new name is nobody else's in the account.
LEMMA NamesStayApart ==
  ASSUME ZnInv, NEW o \in Owners, NEW name \in Names, NEW primary \in BOOLEAN,
         CreateZone(o, name, primary)
  PROVE  NamesApart(zones')
<1> DEFINE others == Others(o, primary)
           row == NewRow(name, primary)
<1>1. /\ zones \in [Owners -> Seq(ZnRows)] /\ Registered \subseteq Owners /\ NamesApart(zones)
      /\ \A m \in Registered : Root(m) \in Registered
  BY OwnerFacts DEF ZnInv
<1>2. /\ others \in [Owners -> Seq(ZnRows)] /\ others[o] = zones[o] /\ o \in Registered
      /\ \A m \in Owners : Thins(others[m], zones[m])
      /\ zones'[o] = Append(zones[o], row) /\ row \in Rows /\ row.name = name
      /\ \A m \in Owners \ {o} : zones'[m] = others[m]
      /\ name \notin NamesTaken(others, o)
  BY Created
<1> HIDE DEF others, row
<1>3. NamesApart(others)
  BY <1>1, <1>2, ThinApart
<1> DEFINE last == Len(zones[o]) + 1
<1>4. /\ ActiveRows(zones'[o]) = ActiveRows(others[o]) \cup {last}
      /\ zones'[o][last].name = name
      /\ \A i \in ActiveRows(others[o]) : zones'[o][i] = others[o][i]
  <2>1. zones[o] \in Seq(ZnRows) /\ row \in Rows /\ zones'[o] = Append(zones[o], row)
    BY <1>1, <1>2
  <2> DEFINE s == zones[o]
  <2> HIDE DEF s, last
  <2>2. /\ ActiveRows(Append(s, row)) = ActiveRows(s) \cup {Len(s) + 1}
        /\ Append(s, row)[Len(s) + 1] = row
        /\ \A i \in DOMAIN s : Append(s, row)[i] = s[i]
    BY <2>1, AppendCounts DEF s
  <2>3. \A i \in ActiveRows(s) : Append(s, row)[i] = s[i]
    BY <2>2 DEF ActiveRows
  <2> QED
    BY <1>2, <2>1, <2>2, <2>3 DEF s, last
<1> HIDE DEF last
\* Every row is one of the rows left, or the new one.
<1>5. \A x \in Registered : \A i \in ActiveRows(zones'[x]) :
          \/ i \in ActiveRows(others[x]) /\ zones'[x][i].name = others[x][i].name
          \/ x = o /\ i = last /\ zones'[x][i].name = name
  BY <1>1, <1>2, <1>4
\* And the new one differs from the others of the account.
<1>6. ASSUME NEW x \in Registered, x = o \/ Root(x) = Root(o), NEW i \in ActiveRows(others[x])
      PROVE  others[x][i].name # name
  <2>1. x \in Scope(o) \/ x = o
    BY <1>6 DEF Scope
  <2>2. o \in Scope(o)
    BY <1>2 DEF Scope
  <2>3. others[x][i].name \in NamesOf(others[x])
    BY <1>6 DEF NamesOf
  <2> QED
    BY <1>2, <2>1, <2>2, <2>3 DEF NamesTaken
<1>7. SUFFICES ASSUME NEW x \in Registered, NEW y \in Registered,
                      x = y \/ (Root(x) = Root(y) /\ Root(x) \notin regraded),
                      NEW i \in ActiveRows(zones'[x]), NEW j \in ActiveRows(zones'[y]),
                      zones'[x][i].name = zones'[y][j].name
               PROVE  x = y /\ i = j
  BY DEF NamesApart
<1>8. CASE /\ i \in ActiveRows(others[x]) /\ zones'[x][i].name = others[x][i].name
           /\ j \in ActiveRows(others[y]) /\ zones'[y][j].name = others[y][j].name
  <2>1. others[x][i].name = others[y][j].name
    BY <1>7, <1>8
  <2> QED
    BY <1>3, <1>7, <1>8, <2>1 DEF NamesApart
<1>9. CASE /\ i \in ActiveRows(others[x]) /\ zones'[x][i].name = others[x][i].name
           /\ y = o /\ j = last /\ zones'[y][j].name = name
  BY <1>6, <1>7, <1>9
<1>10. CASE /\ x = o /\ i = last /\ zones'[x][i].name = name
            /\ j \in ActiveRows(others[y]) /\ zones'[y][j].name = others[y][j].name
  BY <1>6, <1>7, <1>10
<1>11. CASE x = o /\ i = last /\ y = o /\ j = last
  BY <1>11
<1> QED
  BY <1>5, <1>8, <1>9, <1>10, <1>11

LEMMA CreateZoneKeeps ==
  ASSUME ZnInv, NEW o \in Owners, NEW name \in Names, NEW primary \in BOOLEAN,
         CreateZone(o, name, primary)
  PROVE  ZnInv'
<1>1. /\ zones' \in [Owners -> Seq(ZnRows)] /\ UNCHANGED <<account, regraded, backfilled>>
      /\ \A m \in Owners : m \notin Registered => zones'[m] = <<>>
      /\ \A m \in Owners \ {o} : Thins(zones'[m], zones[m])
  BY Created
<1>2. backfilled \subseteq Registered /\ zones \in [Owners -> Seq(ZnRows)] /\ Registered \subseteq Owners
  BY OwnerFacts DEF ZnInv, ZnTypeOK
<1>3. ASSUME NEW m \in Registered, Steady(m)
      PROVE  QuotaKept(account[m], zones'[m])
  <2>1. CASE m = o
    BY <1>3, <2>1, CreatorKeepsQuota
  <2>2. CASE m # o
    <3>1. Thins(zones'[m], zones[m]) /\ zones[m] \in Seq(ZnRows) /\ zones'[m] \in Seq(ZnRows)
      BY <1>1, <1>2, <2>2
    <3>2. QuotaKept(account[m], zones[m])
      BY <1>3 DEF ZnInv
    <3> QED
      BY <3>1, <3>2, ThinQuota
  <2> QED
    BY <2>1, <2>2
<1>4. ASSUME NEW m \in Registered, Steady(m), Root(m) # m, Steady(Root(m))
      PROVE  Cardinality(ActiveRows(zones'[m])) <= MemberLimit(Primaries(zones'[Root(m)]))
  BY <1>4, SharesKept
<1>5. NamesApart(zones')
  BY NamesStayApart
<1> QED
  BY <1>1, <1>2, <1>3, <1>4, <1>5, RowsTurn

------------------------------------------------------------------------------
(* Zones: what holds in every reachable state *)

LEMMA ZnInductive == ZnSpec => []ZnInv
<1>1. ASSUME ZnInv, [ZnNext]_znVars
      PROVE  ZnInv'
  <2>1. CASE UNCHANGED znVars
    <3>1. zones \in [Owners -> Seq(ZnRows)] /\ Registered \subseteq Owners
      BY <1>1, OwnerFacts DEF ZnInv
    <3>2. /\ UNCHANGED <<account, regraded, backfilled>> /\ zones' \in [Owners -> Seq(ZnRows)]
          /\ \A m \in Owners : m \notin Registered => zones'[m] = <<>>
      BY <1>1, <2>1, <3>1, OwnerFacts DEF ZnInv, znVars
    <3>3. \A m \in Owners : Thins(zones'[m], zones[m])
      BY <2>1, <3>1, ThinsItself DEF znVars
    <3> QED
      BY <1>1, <3>2, <3>3, ThinningKeeps
  <2>2. ASSUME NEW o \in Owners,
               \/ \E type \in Types : RegisterAdministrator(o, type)
               \/ \E a \in Owners : Join(o, a)
               \/ \E name \in Names : RegisterSolo(o, name)
        PROVE  ZnInv'
    BY <1>1, <2>2, RegistrationKeeps
  <2>3. ASSUME NEW o \in Owners, NEW role \in Roles, NEW type \in Types, NEW typed \in BOOLEAN,
               Regrade(o, role, type, typed)
        PROVE  ZnInv'
    BY <1>1, <2>3, RegradeKeeps
  <2>4. ASSUME NEW o \in Owners, DeleteOwner(o)
        PROVE  ZnInv'
    BY <1>1, <2>4, DeleteOwnerKeeps
  <2>5. ASSUME NEW o \in Owners, NEW name \in Names, NEW primary \in BOOLEAN,
               CreateZone(o, name, primary)
        PROVE  ZnInv'
    BY <1>1, <2>5, CreateZoneKeeps
  <2>6. ASSUME NEW o \in Owners, NEW i \in DOMAIN zones[o], NEW name \in Names,
               RenameZone(o, i, name)
        PROVE  ZnInv'
    BY <1>1, <2>6, RenameZoneKeeps
  <2>7. ASSUME NEW o \in Owners, NEW i \in DOMAIN zones[o], DeleteZone(o, i)
        PROVE  ZnInv'
    BY <1>1, <2>7, DeleteZoneKeeps
  <2>8. CASE Backfilling
    BY <1>1, <2>8, BackfillingKeeps
  <2>9. CASE Realign
    BY <1>1, <2>9, RealignKeeps
  <2> QED
    BY <1>1, <2>1, <2>2, <2>3, <2>4, <2>5, <2>6, <2>7, <2>8, <2>9 DEF ZnNext
<1> QED
  BY <1>1, ZnInitInv, PTL DEF ZnSpec

\* The accounts keep their types, every root is a registered owner, and nobody who is
\* not registered has zones, through any registrations, regradings, deletions and starts
\* of the server.
THEOREM ZnTypesHold == ZnSpec => []ZnTypeOK
<1>1. ZnInv => ZnTypeOK
  BY DEF ZnInv
<1> QED
  BY <1>1, ZnInductive, PTL

\* Nobody has more zones than the quota gives, in an account the system administrator
\* left as it registered and no server start made primaries in: what a member loses to
\* the eviction of routers/zones.py is always enough.
THEOREM QuotaHolds == ZnSpec => []WithinQuota
<1>1. ASSUME ZnInv, NEW o \in Registered, Undisturbed(o)
      PROVE  /\ Counted(o) <= Limit(o)
             /\ Primaries(zones[o]) <=
                    CASE Solo(o) -> 1 [] ~Solo(o) /\ Admin(o) -> MaxPrimary [] OTHER -> 0
  <2>1. /\ account[o] \in Accounts /\ Root(o) \in Registered /\ zones[o] \in Seq(ZnRows)
        /\ RootsFit /\ ShareKept(o)
    BY <1>1, OwnerFacts DEF ZnInv
  <2>2. Steady(o) /\ Steady(Root(o))
    BY <1>1, <2>1 DEF Undisturbed, AsRegistered, Scope, Steady, Whole
  <2>3. QuotaKept(account[o], zones[o])
    BY <1>1, <2>2 DEF ZnInv
  <2>4. CASE account[o].type = "exclusive"
    <3>1. Solo(o)
      BY <2>1, <2>2, <2>4 DEF RootsFit, Steady, Solo
    <3>2. Counted(o) = Secondaries(zones[o]) /\ Limit(o) = MaxSolo
      BY <3>1 DEF Counted, Limit
    <3> QED
      BY <2>3, <2>4, <3>1, <3>2 DEF QuotaKept
  <2>5. CASE account[o].type # "exclusive" /\ Admin(o)
    <3>1. ~Solo(o)
      BY <2>5 DEF Solo
    <3>2. Counted(o) = Cardinality(ActiveRows(zones[o])) /\ Limit(o) = MaxAdmin
      BY <2>5, <3>1 DEF Counted, Limit
    <3> QED
      BY <2>3, <2>5, <3>1, <3>2 DEF QuotaKept, Admin
  <2>6. CASE account[o].type # "exclusive" /\ ~Admin(o)
    <3>1. ~Solo(o)
      BY <2>6 DEF Solo
    <3>2. /\ Counted(o) = Cardinality(ActiveRows(zones[o]))
          /\ Limit(o) = MemberLimit(Primaries(zones[Root(o)]))
      BY <2>6, <3>1 DEF Counted, Limit
    <3>3. Primaries(zones[o]) = 0 /\ Cardinality(ActiveRows(zones[o])) <= MaxAdmin
      BY <2>3, <2>6 DEF QuotaKept, Admin
    <3>4. Cardinality(ActiveRows(zones[o])) <= MemberLimit(Primaries(zones[Root(o)]))
      BY <2>1, <2>2, <3>3, Limits DEF ShareKept
    <3> QED
      BY <2>6, <3>1, <3>2, <3>3, <3>4
  <2> QED
    BY <2>4, <2>5, <2>6
<1>2. ZnInv => WithinQuota
  BY <1>1 DEF WithinQuota
<1> QED
  BY <1>2, ZnInductive, PTL

\* The active zones of one account have different names, whoever creates, renames,
\* deletes and evicts them in whatever order, unless the system administrator changed
\* somebody of the account.
THEOREM NamesDiffer == ZnSpec => []NamesUnique
<1>1. ASSUME ZnInv, NEW o \in Registered, AsRegistered(o), NEW x \in Scope(o), NEW y \in Scope(o),
             NEW i \in ActiveRows(zones[x]), NEW j \in ActiveRows(zones[y]),
             zones[x][i].name = zones[y][j].name
      PROVE  x = y /\ i = j
  <2> DEFINE r == Root(o)
  <2>1. r \in Registered /\ r \notin regraded
    BY <1>1, OwnerFacts DEF ZnInv, AsRegistered, Scope
  <2>2. Root(r) = r
    <3>1. CASE Root(o) = o
      BY <3>1
    <3>2. CASE Root(o) # o
      BY <1>1, <2>1, <3>2 DEF ZnInv, RootsFit, Whole
    <3> QED
      BY <3>1, <3>2
  <2>3. /\ x \in Registered /\ (x = r \/ Root(x) = r)
        /\ y \in Registered /\ (y = r \/ Root(y) = r)
    BY <1>1 DEF Scope
  <2> HIDE DEF r
  <2>4. Root(x) = r /\ Root(y) = r
    BY <2>2, <2>3
  <2> QED
    BY <1>1, <2>1, <2>3, <2>4 DEF ZnInv, NamesApart
<1>2. ZnInv => NamesUnique
  BY <1>1 DEF NamesUnique
<1> QED
  BY <1>2, ZnInductive, PTL

\* An owner has more zones than before only after creating one.
LEMMA OnlyCreationAdds ==
  ASSUME ZnInv, [ZnNext]_znVars, NEW r \in Registered,
         Cardinality(ActiveRows(zones'[r])) > Cardinality(ActiveRows(zones[r]))
  PROVE  \E name \in Names, primary \in BOOLEAN : CreateZone(r, name, primary)
<1>1. zones \in [Owners -> Seq(ZnRows)] /\ r \in Owners
  BY OwnerFacts DEF ZnInv
<1>2. Cardinality(ActiveRows(zones[r])) \in Nat
  BY <1>1, RowCounts
<1>3. zones'[r] # zones[r] /\ ActiveRows(zones'[r]) # ActiveRows(zones[r])
  BY <1>2
<1>4. ASSUME zones'[r] \in Seq(ZnRows), Thins(zones'[r], zones[r]) PROVE FALSE
  <2>1. Cardinality(ActiveRows(zones'[r])) \in Nat
    BY <1>4, RowCounts
  <2>2. Cardinality(ActiveRows(zones'[r])) <= Cardinality(ActiveRows(zones[r]))
    BY <1>1, <1>4, ThinsCount
  <2> QED
    BY <1>2, <2>1, <2>2
<1>5. ~UNCHANGED znVars /\ ~Realign
  BY <1>3 DEF znVars, Realign
<1>6. ~Backfilling
  BY <1>1, <1>3, BackfillingKeeps
<1>7. ASSUME NEW o \in Owners, NEW type \in Types, RegisterAdministrator(o, type) PROVE FALSE
  BY <1>3, <1>7 DEF RegisterAdministrator
<1>8. ASSUME NEW o \in Owners, NEW a \in Owners, Join(o, a) PROVE FALSE
  BY <1>3, <1>8 DEF Join
<1>9. ASSUME NEW o \in Owners, NEW name \in Names, RegisterSolo(o, name) PROVE FALSE
  <2>1. o # r
    BY <1>9 DEF RegisterSolo
  <2> QED
    BY <1>1, <1>3, <1>9, <2>1 DEF RegisterSolo
<1>10. ASSUME NEW o \in Owners, NEW role \in Roles, NEW type \in Types, NEW typed \in BOOLEAN,
              Regrade(o, role, type, typed)
       PROVE  FALSE
  BY <1>3, <1>10 DEF Regrade
<1>11. ASSUME NEW o \in Owners, DeleteOwner(o) PROVE FALSE
  <2>1. zones'[r] = IF r = o THEN <<>> ELSE zones[r]
    BY <1>1, <1>11 DEF DeleteOwner
  <2>2. zones'[r] = <<>>
    BY <1>3, <2>1
  <2>3. Cardinality(ActiveRows(zones'[r])) = 0
    BY <2>2, NoRows
  <2> QED
    BY <1>2, <2>3
<1>12. ASSUME NEW o \in Owners, NEW i \in DOMAIN zones[o], NEW name \in Names, RenameZone(o, i, name)
       PROVE  FALSE
  BY <1>1, <1>3, <1>12, RenameZoneKeeps
<1>13. ASSUME NEW o \in Owners, NEW i \in DOMAIN zones[o], DeleteZone(o, i) PROVE FALSE
  BY <1>1, <1>4, <1>13, DeleteZoneKeeps
<1>14. ASSUME NEW o \in Owners, NEW name \in Names, NEW primary \in BOOLEAN,
              CreateZone(o, name, primary)
       PROVE  o = r
  <2>1. zones' \in [Owners -> Seq(ZnRows)]
    BY <1>14, Created
  <2>2. \A m \in Owners \ {o} : zones'[m] = Others(o, primary)[m] /\ Thins(zones'[m], zones[m])
    BY <1>14, Created
  <2> QED
    BY <1>1, <1>4, <2>1, <2>2
<1> QED
  BY <1>5, <1>6, <1>7, <1>8, <1>9, <1>10, <1>11, <1>12, <1>13, <1>14 DEF ZnNext

\* What a member keeps when its administrator creates a zone.
LEMMA MemberKeepsOldest ==
  ASSUME ZnInv, NEW m \in Registered, Root(m) # m, Steady(m), Steady(Root(m)),
         NEW name \in Names, NEW primary \in BOOLEAN, CreateZone(Root(m), name, primary)
  PROVE  LET had == Active(zones[m])
             keeps == IF Len(had) < Limit(m)' THEN Len(had) ELSE Limit(m)'
         IN  Active(zones'[m]) = SubSeq(had, 1, keeps)
<1> DEFINE r == Root(m)
           limit == MemberLimit(Primaries(zones'[r]))
           s == zones[m]
           t == zones'[m]
<1>1. /\ s \in Seq(ZnRows) /\ m \in Owners /\ r \in Owners
  BY OwnerFacts DEF ZnInv
<1>2. zones' \in [Owners -> Seq(ZnRows)] /\ UNCHANGED account
  BY <1>1, Created
<1>3. ~Admin(m) /\ ~Solo(m) /\ PrimaryRows(s) = {}
  BY SteadyMember
<1>4. Limit(m)' = limit
  BY <1>2, <1>3 DEF Limit, Solo, Admin, Root
<1>5. limit \in Nat
  BY <1>1, <1>2, RowCounts, Limits
<1>6. Len(Active(s)) = Cardinality(ActiveRows(s)) /\ Active(s) \in Seq(ZnRows)
  BY <1>1, ActiveLength
<1>7. CASE primary
  <2>1. t = SoftDelete(s, Overflow(s, limit))
    BY <1>1, <1>7, CreatorEvicts DEF Steady, Whole
  <2> HIDE DEF s, t, limit, r
  <2>2. Active(t) = SubSeq(Active(s), 1, IF Len(Active(s)) < limit THEN Len(Active(s)) ELSE limit)
    BY <1>1, <1>3, <1>5, <2>1, EvictedIsOldest
  <2> QED
    BY <1>4, <2>2 DEF s, t
<1>8. CASE ~primary
  <2>1. \A x \in Owners \ {r} : zones'[x] = Others(r, primary)[x] /\ Thins(zones'[x], zones[x])
    BY <1>1, Created
  <2>2. t = s
    BY <1>1, <1>8, <2>1 DEF Others
  <2>3. Cardinality(ActiveRows(t)) <= limit
    BY <1>1, SharesKept
  <2>4. Cardinality(ActiveRows(s)) \in Nat
    BY <1>1, RowCounts
  <2> HIDE DEF s, t, limit, r
  <2>5. (IF Len(Active(s)) < limit THEN Len(Active(s)) ELSE limit) = Len(Active(s))
    BY <1>5, <1>6, <2>2, <2>3, <2>4
  <2>6. SubSeq(Active(s), 1, Len(Active(s))) = Active(s)
    BY <1>6
  <2> QED
    BY <1>4, <2>2, <2>5, <2>6 DEF s, t
<1> QED
  BY <1>7, <1>8

\* A member loses zones to its administrator's new primary only as far as its new limit
\* demands, and the newest ones, whatever either created and deleted before
\* (evict_member_secondary_overflow).
THEOREM EvictionSpares == ZnSpec => EvictionSparesTheOldest
<1> DEFINE Spares ==
      \A m \in Registered :
           /\ Root(m) # m /\ Undisturbed(m)
           /\ Cardinality(ActiveRows(zones'[Root(m)])) > Cardinality(ActiveRows(zones[Root(m)]))
           => LET had == Active(zones[m])
                  keeps == IF Len(had) < Limit(m)' THEN Len(had) ELSE Limit(m)'
              IN  Active(zones'[m]) = SubSeq(had, 1, keeps)
<1>1. ASSUME ZnInv, [ZnNext]_znVars PROVE Spares
  <2>1. SUFFICES ASSUME NEW m \in Registered, Root(m) # m, Undisturbed(m),
                        Cardinality(ActiveRows(zones'[Root(m)])) > Cardinality(ActiveRows(zones[Root(m)]))
                 PROVE  LET had == Active(zones[m])
                            keeps == IF Len(had) < Limit(m)' THEN Len(had) ELSE Limit(m)'
                        IN  Active(zones'[m]) = SubSeq(had, 1, keeps)
    OBVIOUS
  <2>2. Root(m) \in Registered
    BY <1>1, OwnerFacts DEF ZnInv
  <2>3. Steady(m) /\ Steady(Root(m))
    BY <2>1, <2>2 DEF Undisturbed, AsRegistered, Scope, Steady, Whole
  <2>4. PICK name \in Names, primary \in BOOLEAN : CreateZone(Root(m), name, primary)
    BY <1>1, <2>1, <2>2, OnlyCreationAdds
  <2> QED
    BY <1>1, <2>1, <2>3, <2>4, MemberKeepsOldest
<1>2. ZnInv /\ [ZnNext]_znVars => [Spares]_znVars
  BY <1>1
<1> QED
  BY <1>2, ZnInductive, PTL DEF ZnSpec, EvictionSparesTheOldest
==============================================================================
